---- MODULE Spec2Model ----
(***************************************************************************)
(* Model of the A2A task executor (OpenCodeAgentExecutor) and of its       *)
(* session bridge (processWithOpenCode): one execute call per task, the    *)
(* backend calls it awaits, and cancelTask calls interleaved at the        *)
(* awaits.                                                                 *)
(*                                                                         *)
(* Every `await` of the source is a suspension point: the action before    *)
(* it issues the backend call, the action after it consumes the backend's  *)
(* answer, which is drawn here from every answer the backend can give.     *)
(* Code between two awaits runs to completion inside one action, as it     *)
(* does on the event loop.                                                 *)
(***************************************************************************)
EXTENDS Integers, Sequences, FiniteSets, TLC

\* Time is counted in eighths of a millisecond, so that the 1.5x growth of
\* the poll interval (500, 750, 1125, 1687.5, 2531.25, 3796.875) stays exact.
Ms(n) == 8 * n

\* ------------------------------------------------------------------ bounds
\* Number of cancelTask invocations the host makes per task.
MaxCancels == 1

\* ------------------------------------------------------- inputs of a run
TaskIds == {"t1", "t2"}

\* The contextId of the request that carries each task.
ContextOf(t) == IF t = "t1" THEN "ctx-1" ELSE "ctx-2"

\* options.timeout as given to the constructor; 0 stands for every falsy
\* value (option absent, undefined or 0).
OptTimeouts == {0, Ms(400), Ms(1000)}

\* Time a backend call takes to answer.
Latencies == {0, Ms(600)}

FilePart == [kind |-> "file", uri |-> "file:///a.txt"]
TextPart(s) == [kind |-> "text", text |-> s]

\* userMessage values of the request (parts of a user-authored message).
UserMessages ==
    { [kind |-> "message", role |-> "user", parts |-> ps] :
        ps \in { <<TextPart("Hello")>>,
                 <<FilePart, TextPart("Hello"), TextPart("Bye")>>,
                 <<FilePart>> } }

\* Values a backend call can reject with: an Error instance carrying a
\* message, or a value that is not an Error (here a thrown string).
Thrown ==
    { [isError |-> TRUE,  message |-> "backend down"],
      [isError |-> FALSE, message |-> "rejected"] }

MkError(m) == [isError |-> TRUE, message |-> m]

\* Session messages as the backend lists them.
SPart(ty, s) == [type |-> ty, text |-> s]
SMsg(role, ps) == [info |-> [role |-> role], parts |-> ps]

MessageLists ==
    { <<>>,
      <<SMsg("user", <<SPart("text", "Hello")>>)>>,
      <<SMsg("user", <<SPart("text", "Hello")>>),
        SMsg("assistant", <<SPart("text", "Hi there")>>)>>,
      <<SMsg("assistant", <<SPart("text", "old")>>),
        SMsg("user", <<SPart("text", "more")>>),
        SMsg("assistant", <<SPart("tool", "ls"), SPart("text", "Hi"),
                            SPart("text", "there")>>)>>,
      <<SMsg("assistant", <<>>)>>,
      <<SMsg("assistant", <<SPart("text", "")>>)>>,
      <<SMsg("assistant", <<SPart("text", "first")>>),
        SMsg("assistant", <<SPart("tool", "ls")>>)>> }

\* Answers of session.messages: a rejection, a result without data, or a
\* result whose data is a message list.
MessagesAnswers ==
    { [kind |-> "throw", data |-> <<>>], [kind |-> "nodata", data |-> <<>>] }
    \cup { [kind |-> "data", data |-> l] : l \in MessageLists }

\* ----------------------------------------------------------------- state
VARIABLES
    client,        \* this.client is set (a backend is configured)
    optTimeout,    \* options.timeout given to the constructor
    requests,      \* task ids for which the host calls execute
    task,          \* task[t]: requestContext.task is present (known task)
    userMessage,   \* userMessage[t]: requestContext.userMessage
    pc,            \* pc[t]: the await at which execute(t) is suspended
    sessionId,     \* sessionId[t]: const sessionId of processWithOpenCode
    startTime,     \* startTime[t]: const startTime of pollForResponse
    pollInterval,  \* pollInterval[t]: let pollInterval of pollForResponse
    clock,         \* clock[t]: Date.now() as last seen by execution t
    outcome,       \* outcome[t]: the value or error travelling up the stack
    result,        \* result[t]: how the promise of execute(t) settled
    log,           \* log[t]: what task t did to the outside, in order:
                   \*   events published on its event bus, backend calls
                   \*   issued, setTimeout delays requested
    cancels,       \* cancels[t]: number of cancelTask(t) invocations so far
    nextSid,       \* backend: number of sessions created so far
    answer,        \* answer[t]: the last answer of session.messages to t
    deleted,       \* deleted[t]: how session.delete answered execution t
    pollWarnings,  \* pollWarnings[t]: warnings "Error checking for response"
                   \*   that checkForResponse logged for t
    cancelAt,      \* host: the places of execute at which it calls cancelTask
    latencies,     \* backend: the times a session.* promise may take
    utilCall,      \* client.ts: the utility function called and its arguments
    utilPc,        \* client.ts: the await at which that call is suspended
    net,           \* client.ts: fetch requests and client calls issued, in order
    fetched,       \* client.ts: const response of fetchAgentCard
    utilResult,    \* client.ts: how the promise of the utility call settled
    starts,        \* host: the calls of startA2AServer that it makes
    sessionApi,    \* backend: the item lists its discovery methods may answer
    startPc,       \* startPc[k]: the await at which call k of startA2AServer
                   \*   is suspended
    discovery,     \* discovery[k]: const result of discoverSkills in call k
    discoverResult,\* discoverResult[k]: how discoverSkills settled in call k
    agentCard,     \* agentCard[k]: skills of const agentCard of call k
    serverInstance,\* server.ts: let serverInstance, null or a server
    servers,       \* the HTTP servers made by expressApp.listen, in order
    stops,         \* host: the calls of stopA2AServer that it makes
    stopPc,        \* stopPc[j]: where call j of stopA2AServer is
    closing,       \* closing[j]: the server on which call j called close
    sinkThrows,    \* host: eventBus.publish may throw
    agentUrl,      \* index.ts: config.agentUrl
    toolCall,      \* a2a-tools.ts: the tool executed and its args
    toolPc,        \* a2a-tools.ts: the await at which execute is suspended
    toolClient,    \* a2a-tools.ts: const client of execute
    toolResponse,  \* a2a-tools.ts: const response of a2a_send.execute
    toolLog,       \* a2a-tools.ts: calls of getClient and of the client
    toolResult,    \* a2a-tools.ts: how the promise of execute settled
    clientState,   \* index.ts: clientState.client
    factoryCalls,  \* index.ts: calls of factory.createFromUrl so far
    getterPc,      \* getterPc[g]: where call g of clientGetter is
    getterResult   \* getterResult[g]: how call g of clientGetter settled

vars == <<client, optTimeout, requests, task, userMessage, pc, sessionId,
          startTime, pollInterval, clock, outcome, result, log, cancels,
          nextSid, answer, deleted, pollWarnings, cancelAt, latencies,
          utilCall, utilPc, net, fetched, utilResult,
          starts, sessionApi, startPc, discovery, discoverResult, agentCard,
          serverInstance, servers, stops, stopPc, closing,
          sinkThrows, agentUrl, toolCall, toolPc, toolClient, toolResponse,
          toolLog, toolResult, clientState, factoryCalls, getterPc,
          getterResult>>

\* The state of the executor, which the utilities of client.ts never touch.
executorVars == <<client, optTimeout, requests, task, userMessage, pc,
                  sessionId, startTime, pollInterval, clock, outcome, result,
                  log, cancels, nextSid, answer, deleted, pollWarnings,
                  cancelAt, latencies, sinkThrows>>

\* The state of a call of a client.ts utility, which the executor never
\* touches.
utilVars == <<utilCall, utilPc, net, fetched, utilResult>>

\* The state of the calls of startA2AServer (server.ts, discovery.ts).
serverVars == <<starts, sessionApi, startPc, discovery, discoverResult,
                agentCard, serverInstance, servers, stops, stopPc, closing>>

\* The HTTP servers and the calls of stopA2AServer.
httpVars == <<serverInstance, servers, stops, stopPc, closing>>

\* The state of a call of a tool of a2a-tools.ts.
toolVars == <<toolCall, toolPc, toolClient, toolResponse, toolLog, toolResult>>

\* The state of the lazy client getter of index.ts.
getterVars == <<clientState, factoryCalls, getterPc, getterResult>>

\* What neither the executor nor a client.ts utility touches.
pluginVars == <<serverVars, agentUrl, toolVars, getterVars>>

config == <<client, optTimeout, requests, task, userMessage, cancelAt,
            latencies, sinkThrows, utilVars, pluginVars>>

\* The places of execute: before the call, at each await, after the return.
Places == {"idle", "create", "prompt", "wait", "poll", "final", "cleanup",
           "resolved", "done"}

NoAnswer == [kind |-> "none", data |-> <<>>]

NoOutcome == [kind |-> "none"]
Value(s) == [kind |-> "value", text |-> s]
Throw(e) == [kind |-> "throw", error |-> e]

\* ---------------------------------------------------------- constructor
\* this.timeout = options?.timeout || 120000
timeout == IF optTimeout = 0 THEN Ms(120000) ELSE optTimeout

\* ------------------------------------------------------ outside effects
\* eventBus.publish(e)
Publish(bus, e) == Append(bus, [type |-> "publish", event |-> e])
\* this.client.session.<op>(..)
Call(l, c) == Append(l, [type |-> "call", call |-> c])
\* setTimeout(resolve, ms)
SetTimeout(l, ms) == Append(l, [type |-> "wait", ms |-> ms])

CreateCall == [op |-> "create"]
PromptCall(sid, text) ==
    [op |-> "prompt", id |-> sid, parts |-> <<SPart("text", text)>>]
MessagesCall(sid) == [op |-> "messages", id |-> sid]
DeleteCall(sid) == [op |-> "delete", id |-> sid]

\* ------------------------------------------------------ published events
TaskEvent(taskId, contextId, um) ==
    [kind |-> "task", id |-> taskId, contextId |-> contextId,
     status |-> [state |-> "submitted"], history |-> <<um>>]

AgentMessage(taskId, contextId, s) ==
    [kind |-> "message", role |-> "agent", parts |-> <<TextPart(s)>>,
     taskId |-> taskId, contextId |-> contextId]

\* Mutant: the texts of all the text parts are handed on.
userTextJoined(um) ==
    LET texts == SelectSeq(um.parts, LAMBDA p : p.kind = "text")
    IN  IF texts = <<>> THEN ""
        ELSE IF Len(texts) = 1 THEN texts[1].text
        ELSE texts[1].text \o "\n" \o texts[2].text

\* const userText = textPart?.text || ""
userText(um) ==
    LET texts == SelectSeq(um.parts, LAMBDA p : p.kind = "text")
    IN  IF texts = <<>> THEN "" ELSE Head(texts).text

\* Mutant: the working status is published as a final one.
publishWorkingStatusFinal(bus, taskId, contextId) ==
    Publish(bus,
        [kind |-> "status-update", taskId |-> taskId, contextId |-> contextId,
         status |-> [state |-> "working",
                     message |-> AgentMessage(taskId, contextId,
                                     "Processing your request with OpenCode...")],
         final |-> TRUE])

publishWorkingStatus(bus, taskId, contextId) ==
    Publish(bus,
        [kind |-> "status-update", taskId |-> taskId, contextId |-> contextId,
         status |-> [state |-> "working",
                     message |-> AgentMessage(taskId, contextId,
                                     "Processing your request with OpenCode...")],
         final |-> FALSE])

\* Mutant: the response is published in two chunks.
publishSuccessChunked(bus, taskId, contextId, response) ==
    Publish(
        Publish(
            Publish(bus,
                [kind |-> "artifact-update", taskId |-> taskId,
                 contextId |-> contextId,
                 artifact |-> [name |-> "Result",
                               description |-> "The result from OpenCode agent.",
                               parts |-> <<TextPart(response)>>],
                 lastChunk |-> FALSE]),
            [kind |-> "artifact-update", taskId |-> taskId,
             contextId |-> contextId,
             artifact |-> [name |-> "Result",
                           description |-> "The result from OpenCode agent.",
                           parts |-> <<TextPart("")>>],
             lastChunk |-> TRUE]),
        [kind |-> "status-update", taskId |-> taskId, contextId |-> contextId,
         status |-> [state |-> "completed"],
         final |-> TRUE])

\* Mutant: the completed status is published before the artifact.
publishSuccessStatusFirst(bus, taskId, contextId, response) ==
    Publish(
        Publish(bus,
            [kind |-> "status-update", taskId |-> taskId,
             contextId |-> contextId,
             status |-> [state |-> "completed"],
             final |-> TRUE]),
        [kind |-> "artifact-update", taskId |-> taskId, contextId |-> contextId,
         artifact |-> [name |-> "Result",
                       description |-> "The result from OpenCode agent.",
                       parts |-> <<TextPart(response)>>],
         lastChunk |-> TRUE])

\* Mutant: the completed status repeats the response in a message.
publishSuccessWithMessage(bus, taskId, contextId, response) ==
    Publish(
        Publish(bus,
            [kind |-> "artifact-update", taskId |-> taskId,
             contextId |-> contextId,
             artifact |-> [name |-> "Result",
                           description |-> "The result from OpenCode agent.",
                           parts |-> <<TextPart(response)>>],
             lastChunk |-> TRUE]),
        [kind |-> "status-update", taskId |-> taskId, contextId |-> contextId,
         status |-> [state |-> "completed",
                     message |-> AgentMessage(taskId, contextId, response)],
         final |-> TRUE])

publishSuccess(bus, taskId, contextId, response) ==
    Publish(
        Publish(bus,
            [kind |-> "artifact-update", taskId |-> taskId,
             contextId |-> contextId,
             artifact |-> [name |-> "Result",
                           description |-> "The result from OpenCode agent.",
                           parts |-> <<TextPart(response)>>],
             lastChunk |-> TRUE]),
        [kind |-> "status-update", taskId |-> taskId, contextId |-> contextId,
         status |-> [state |-> "completed"],
         final |-> TRUE])

\* `Error: ${error instanceof Error ? error.message : "Unknown error"}`
errorMessage(error) ==
    "Error: " \o (IF error.isError THEN error.message ELSE "Unknown error")

\* Mutant: the failed status is forgotten after the Error artifact.
publishErrorArtifactOnly(bus, taskId, contextId, error) ==
    Publish(bus,
        [kind |-> "artifact-update", taskId |-> taskId, contextId |-> contextId,
         artifact |-> [name |-> "Error",
                       description |-> "Error from OpenCode agent.",
                       parts |-> <<TextPart(errorMessage(error))>>],
         lastChunk |-> TRUE])

\* Mutant: the failed status carries the raw message of the thrown value,
\* not the formatted text of the artifact.
publishErrorRawMessage(bus, taskId, contextId, error) ==
    Publish(
        Publish(bus,
            [kind |-> "artifact-update", taskId |-> taskId,
             contextId |-> contextId,
             artifact |-> [name |-> "Error",
                           description |-> "Error from OpenCode agent.",
                           parts |-> <<TextPart(errorMessage(error))>>],
             lastChunk |-> TRUE]),
        [kind |-> "status-update", taskId |-> taskId, contextId |-> contextId,
         status |-> [state |-> "failed",
                     message |-> AgentMessage(taskId, contextId, error.message)],
         final |-> TRUE])

publishError(bus, taskId, contextId, error) ==
    Publish(
        Publish(bus,
            [kind |-> "artifact-update", taskId |-> taskId,
             contextId |-> contextId,
             artifact |-> [name |-> "Error",
                           description |-> "Error from OpenCode agent.",
                           parts |-> <<TextPart(errorMessage(error))>>],
             lastChunk |-> TRUE]),
        [kind |-> "status-update", taskId |-> taskId, contextId |-> contextId,
         status |-> [state |-> "failed",
                     message |-> AgentMessage(taskId, contextId,
                                              errorMessage(error))],
         final |-> TRUE])

\* Mutant: the canceled status is not marked final.
publishCanceledNotFinal(bus, taskId) ==
    Publish(bus,
        [kind |-> "status-update", taskId |-> taskId, contextId |-> "",
         status |-> [state |-> "canceled"],
         final |-> FALSE])

\* The publish of cancelTask.
publishCanceled(bus, taskId) ==
    Publish(bus,
        [kind |-> "status-update", taskId |-> taskId, contextId |-> "",
         status |-> [state |-> "canceled"],
         final |-> TRUE])

\* Mutant: the Task snapshot is published for known tasks too.
executePrologAlwaysSnapshot(bus, taskId, contextId, um, known) ==
    publishWorkingStatus(Publish(bus, TaskEvent(taskId, contextId, um)),
                         taskId, contextId)

\* The first lines of execute: the Task snapshot of a new task, then the
\* working status.
executeProlog(bus, taskId, contextId, um, known) ==
    publishWorkingStatus(
        IF ~known THEN Publish(bus, TaskEvent(taskId, contextId, um)) ELSE bus,
        taskId, contextId)

\* Mutant: no catch block, the error of the bridge leaves execute.
executeTryNoCatch(bus, taskId, contextId, out) ==
    IF out.kind = "value"
    THEN [bus |-> publishSuccess(bus, taskId, contextId, out.text),
          settled |-> "returned"]
    ELSE [bus |-> bus, settled |-> "threw"]

\* try { response = await processWithOpenCode(..); publishSuccess(..) }
\* catch (error) { publishError(..) }: what is published once the bridge's
\* promise has settled with `out`, and how the promise of execute settles.
executeTryCatch(bus, taskId, contextId, out) ==
    IF out.kind = "value"
    THEN [bus |-> publishSuccess(bus, taskId, contextId, out.text),
          settled |-> "returned"]
    ELSE [bus |-> publishError(bus, taskId, contextId, out.error),
          settled |-> "returned"]

\* --------------------------------------------------------- session bridge
Null == <<>>
Some(s) == <<s>>
\* Mutant: an empty string counts as a response.
TruthyEmpty(r) == r # Null

\* JavaScript truthiness of a string | null.
Truthy(r) == r # Null /\ r[1] # ""

RECURSIVE Join(_, _)
Join(strs, sep) ==
    IF strs = <<>> THEN ""
    ELSE IF Len(strs) = 1 THEN strs[1]
    ELSE strs[1] \o sep \o Join(Tail(strs), sep)

Texts(ps) == [i \in 1..Len(ps) |-> ps[i].text]

\* Mutant: the first assistant message is read where the last one is meant.
firstAssistantText(ans) ==
    IF ans.kind = "throw" THEN Null
    ELSE LET messages == IF ans.kind = "nodata" THEN <<>> ELSE ans.data
             assistantMessages ==
                 SelectSeq(messages, LAMBDA m : m.info.role = "assistant")
         IN  IF Len(assistantMessages) > 0
             THEN LET firstAssistant == assistantMessages[1]
                      textParts ==
                          SelectSeq(firstAssistant.parts, LAMBDA p : p.type = "text")
                  IN  IF Len(textParts) > 0
                      THEN Some(Join(Texts(textParts), "\n"))
                      ELSE Null
             ELSE Null

\* The body shared by checkForResponse and getFinalResponse: the text parts
\* of the last assistant message joined by "\n", or null.
lastAssistantText(ans) ==
    IF ans.kind = "throw" THEN Null
    ELSE LET messages == IF ans.kind = "nodata" THEN <<>> ELSE ans.data
             assistantMessages ==
                 SelectSeq(messages, LAMBDA m : m.info.role = "assistant")
         IN  IF Len(assistantMessages) > 0
             THEN LET lastAssistant == assistantMessages[Len(assistantMessages)]
                      textParts ==
                          SelectSeq(lastAssistant.parts, LAMBDA p : p.type = "text")
                  IN  IF Len(textParts) > 0
                      THEN Some(Join(Texts(textParts), "\n"))
                      ELSE Null
             ELSE Null

checkForResponse(ans) == lastAssistantText(ans)

getFinalResponse(ans) == lastAssistantText(ans)

\* finalResponse || `OpenCode timeout after ${this.timeout}ms`
timeoutNotice == "OpenCode timeout after " \o ToString(timeout \div 8) \o "ms"

\* pollInterval = Math.min(pollInterval * 1.5, maxInterval)
maxInterval == Ms(5000)

\* Mutant: the interval grows without the cap.
nextPollIntervalUncapped(i) == (3 * i) \div 2

nextPollInterval(i) ==
    IF 3 * i >= 2 * maxInterval THEN maxInterval ELSE (3 * i) \div 2

\* while (Date.now() - startTime < this.timeout)
loopCondition(now, start) == now - start < timeout

\* ------------------------------------------------------------------ Init
\* The executor as constructed, and the requests the host will make.
InitExecutor ==
    /\ client \in BOOLEAN
    /\ optTimeout \in OptTimeouts
    /\ task \in [TaskIds -> BOOLEAN]
    /\ userMessage \in [TaskIds -> UserMessages]
    /\ pc = [t \in TaskIds |-> "idle"]
    /\ sessionId = [t \in TaskIds |-> 0]
    /\ startTime = [t \in TaskIds |-> 0]
    /\ pollInterval = [t \in TaskIds |-> 0]
    /\ clock = [t \in TaskIds |-> 0]
    /\ outcome = [t \in TaskIds |-> NoOutcome]
    /\ result = [t \in TaskIds |-> "pending"]
    /\ log = [t \in TaskIds |-> <<>>]
    /\ cancels = [t \in TaskIds |-> 0]
    /\ nextSid = 0
    /\ answer = [t \in TaskIds |-> NoAnswer]
    /\ deleted = [t \in TaskIds |-> "none"]
    /\ pollWarnings = [t \in TaskIds |-> 0]

\* No utility of client.ts has been called.
NoCall == [fn |-> "none"]
NoResponse == [status |-> 0]

\* The calls of startA2AServer that the host may make.
MaxStarts == 2
StartIds == 1..MaxStarts
\* The calls of stopA2AServer that the host may make.
MaxStops == 2
StopIds == 1..MaxStops
\* The calls of clientGetter that tools and the plugin may make.
MaxGetters == 3
GetterIds == 1..MaxGetters

\* No call of startA2AServer has been made.
InitPlugin ==
    /\ startPc = [k \in StartIds |-> "idle"]
    /\ discovery = [k \in StartIds |->
                      [commands |-> <<>>, tools |-> <<>>,
                       pluginSkills |-> <<>>, all |-> <<>>]]
    /\ discoverResult = [k \in StartIds |-> NoOutcome]
    /\ agentCard = [k \in StartIds |-> <<>>]
    /\ serverInstance = Null
    /\ servers = <<>>
    /\ stopPc = [j \in StopIds |-> "idle"]
    /\ closing = [j \in StopIds |-> 0]
    /\ toolCall = NoCall
    /\ toolPc = "idle"
    /\ toolClient = Null
    /\ toolResponse = Null
    /\ toolLog = <<>>
    /\ toolResult = NoOutcome
    /\ clientState = Null
    /\ factoryCalls = 0
    /\ getterPc = [g \in GetterIds |-> "idle"]
    /\ getterResult = [g \in GetterIds |-> NoOutcome]

\* The host never starts the server.
NoServer ==
    /\ starts = {}
    /\ stops = {}
    /\ sessionApi = {}

\* No remote agent is configured.
NoAgent == agentUrl = Null

\* eventBus.publish never throws.
ReliableSink == sinkThrows = FALSE

InitUtilities ==
    /\ utilCall = NoCall
    /\ utilPc = "idle"
    /\ net = <<>>
    /\ fetched = NoResponse
    /\ utilResult = NoOutcome
    /\ InitPlugin

\* One task request, on an executor constructed with a short timeout, so
\* that cancelTask can be interleaved with every step of the polling. The
\* request for "t2" is never made; its fields are fixed.
Init ==
    /\ InitExecutor
    /\ InitUtilities
    /\ NoServer
    /\ NoAgent
    /\ ReliableSink
    /\ optTimeout # 0
    /\ requests = {"t1"}
    /\ cancelAt = Places
    /\ latencies = Latencies
    /\ task["t2"] = TRUE
    /\ userMessage["t2"] = [kind |-> "message", role |-> "user",
                            parts |-> <<TextPart("Hello")>>]

\* --------------------------------------------------------------- actions
\* Mutant: no finally block, the session is left behind.
enterCleanupNoDelete(t, out) ==
    /\ outcome' = [outcome EXCEPT ![t] = out]
    /\ log' = [log EXCEPT ![t] = @]
    /\ pc' = [pc EXCEPT ![t] = "cleanup"]

\* Mutant: the session is read once more after its delete was issued.
enterCleanupThenRead(t, out) ==
    /\ outcome' = [outcome EXCEPT ![t] = out]
    /\ log' = [log EXCEPT ![t] = Call(Call(@, DeleteCall(sessionId[t])),
                                      MessagesCall(sessionId[t]))]
    /\ pc' = [pc EXCEPT ![t] = "cleanup"]

\* finally { await this.cleanupSession(sessionId) }: the delete call is
\* issued and `out` waits for it to settle.
enterCleanup(t, out) ==
    /\ outcome' = [outcome EXCEPT ![t] = out]
    /\ log' = [log EXCEPT ![t] = Call(@, DeleteCall(sessionId[t]))]
    /\ pc' = [pc EXCEPT ![t] = "cleanup"]

\* The loop head of pollForResponse at time `now`: another setTimeout, or
\* the final read of getFinalResponse.
loopHead(t, now, start, interval) ==
    /\ IF loopCondition(now, start)
       THEN /\ log' = [log EXCEPT ![t] = SetTimeout(@, interval)]
            /\ pc' = [pc EXCEPT ![t] = "wait"]
       ELSE /\ log' = [log EXCEPT ![t] = Call(@, MessagesCall(sessionId[t]))]
            /\ pc' = [pc EXCEPT ![t] = "final"]
    /\ UNCHANGED outcome

\* Mutant: no client check, session.create is called on a missing client.
processWithOpenCodeUnchecked(t, l) ==
    /\ log' = [log EXCEPT ![t] = Call(l, CreateCall)]
    /\ pc' = [pc EXCEPT ![t] = "create"]
    /\ UNCHANGED outcome

\* processWithOpenCode up to its first await: the client check, then
\* createSession issues session.create.
processWithOpenCode(t, l) ==
    IF ~client
    THEN /\ outcome' = [outcome EXCEPT ![t] = Throw(MkError(
             "OpenCode client not available. Please configure the A2A plugin properly."))]
         /\ pc' = [pc EXCEPT ![t] = "resolved"]
         /\ log' = [log EXCEPT ![t] = l]
    ELSE /\ log' = [log EXCEPT ![t] = Call(l, CreateCall)]
         /\ pc' = [pc EXCEPT ![t] = "create"]
         /\ UNCHANGED outcome

\* execute up to its first await: the Task snapshot of a new task, the
\* working status, then the call of processWithOpenCode.
execute(t) ==
    /\ t \in requests
    /\ pc[t] = "idle"
    /\ processWithOpenCode(t,
           executeProlog(log[t], t, ContextOf(t), userMessage[t], task[t]))
    /\ UNCHANGED <<config, sessionId, startTime, pollInterval, clock, result,
                   cancels, nextSid, answer, deleted, pollWarnings>>

\* Mutant: the session id is kept in a field of the executor, shared by all
\* its executions.
createSessionReturnShared(t) ==
    /\ pc[t] = "create"
    /\ \E lat \in latencies :
          clock' = [clock EXCEPT ![t] = @ + lat]
    /\ \/ /\ nextSid' = nextSid + 1
          /\ sessionId' = [u \in TaskIds |-> nextSid + 1]
          /\ log' = [log EXCEPT ![t] =
                 Call(@, PromptCall(nextSid + 1, userText(userMessage[t])))]
          /\ pc' = [pc EXCEPT ![t] = "prompt"]
          /\ UNCHANGED outcome
       \/ /\ outcome' = [outcome EXCEPT ![t] =
                 Throw(MkError("Failed to create OpenCode session"))]
          /\ pc' = [pc EXCEPT ![t] = "resolved"]
          /\ UNCHANGED <<nextSid, sessionId, log>>
       \/ /\ \E e \in Thrown : outcome' = [outcome EXCEPT ![t] = Throw(e)]
          /\ pc' = [pc EXCEPT ![t] = "resolved"]
          /\ UNCHANGED <<nextSid, sessionId, log>>
    /\ UNCHANGED <<config, startTime, pollInterval, result, cancels, answer,
                   deleted, pollWarnings>>

\* Mutant: the result of session.create is not checked for an id, the
\* prompt goes to session 0 (undefined).
createSessionReturnUnchecked(t) ==
    /\ pc[t] = "create"
    /\ \E lat \in latencies :
          clock' = [clock EXCEPT ![t] = @ + lat]
    /\ \/ /\ nextSid' = nextSid + 1
          /\ sessionId' = [sessionId EXCEPT ![t] = nextSid + 1]
          /\ log' = [log EXCEPT ![t] =
                 Call(@, PromptCall(nextSid + 1, userText(userMessage[t])))]
          /\ pc' = [pc EXCEPT ![t] = "prompt"]
          /\ UNCHANGED outcome
       \/ /\ log' = [log EXCEPT ![t] =
                 Call(@, PromptCall(0, userText(userMessage[t])))]
          /\ pc' = [pc EXCEPT ![t] = "prompt"]
          /\ UNCHANGED <<nextSid, sessionId, outcome>>
       \/ /\ \E e \in Thrown : outcome' = [outcome EXCEPT ![t] = Throw(e)]
          /\ pc' = [pc EXCEPT ![t] = "resolved"]
          /\ UNCHANGED <<nextSid, sessionId, log>>
    /\ UNCHANGED <<config, startTime, pollInterval, result, cancels, answer,
                   deleted, pollWarnings>>

\* session.create settles; on an id, sendPrompt issues session.prompt.
createSessionReturn(t) ==
    /\ pc[t] = "create"
    /\ \E lat \in latencies :
          clock' = [clock EXCEPT ![t] = @ + lat]
    /\ \/ /\ nextSid' = nextSid + 1
          /\ sessionId' = [sessionId EXCEPT ![t] = nextSid + 1]
          /\ log' = [log EXCEPT ![t] =
                 Call(@, PromptCall(nextSid + 1, userText(userMessage[t])))]
          /\ pc' = [pc EXCEPT ![t] = "prompt"]
          /\ UNCHANGED outcome
       \/ /\ outcome' = [outcome EXCEPT ![t] =
                 Throw(MkError("Failed to create OpenCode session"))]
          /\ pc' = [pc EXCEPT ![t] = "resolved"]
          /\ UNCHANGED <<nextSid, sessionId, log>>
       \/ /\ \E e \in Thrown : outcome' = [outcome EXCEPT ![t] = Throw(e)]
          /\ pc' = [pc EXCEPT ![t] = "resolved"]
          /\ UNCHANGED <<nextSid, sessionId, log>>
    /\ UNCHANGED <<config, startTime, pollInterval, result, cancels, answer,
                   deleted, pollWarnings>>

\* Mutant: the elapsed time is measured from the start of the bridge.
sendPromptReturnFromStart(t) ==
    /\ pc[t] = "prompt"
    /\ \E lat \in latencies :
          clock' = [clock EXCEPT ![t] = @ + lat]
    /\ \/ /\ startTime' = [startTime EXCEPT ![t] = 0]
          /\ pollInterval' = [pollInterval EXCEPT ![t] = Ms(500)]
          /\ loopHead(t, clock'[t], 0, Ms(500))
       \/ /\ \E e \in Thrown : enterCleanup(t, Throw(e))
          /\ UNCHANGED <<startTime, pollInterval>>
    /\ UNCHANGED <<config, sessionId, result, cancels, nextSid, answer,
                   deleted, pollWarnings>>

\* Mutant: a rejected prompt is submitted a second time.
sendPromptReturnRetry(t) ==
    /\ pc[t] = "prompt"
    /\ \E lat \in latencies :
          clock' = [clock EXCEPT ![t] = @ + lat]
    /\ \/ /\ startTime' = [startTime EXCEPT ![t] = clock'[t]]
          /\ pollInterval' = [pollInterval EXCEPT ![t] = Ms(500)]
          /\ loopHead(t, clock'[t], clock'[t], Ms(500))
       \/ /\ Len(SelectSeq(log[t], LAMBDA x : x.type = "call")) = 2
          /\ log' = [log EXCEPT ![t] =
                 Call(@, PromptCall(sessionId[t], userText(userMessage[t])))]
          /\ UNCHANGED <<startTime, pollInterval, pc, outcome>>
       \/ /\ Len(SelectSeq(log[t], LAMBDA x : x.type = "call")) > 2
          /\ \E e \in Thrown : enterCleanup(t, Throw(e))
          /\ UNCHANGED <<startTime, pollInterval>>
    /\ UNCHANGED <<config, sessionId, result, cancels, nextSid, answer,
                   deleted, pollWarnings>>

\* session.prompt settles: pollForResponse starts, or the error goes up
\* through the finally block.
sendPromptReturn(t) ==
    /\ pc[t] = "prompt"
    /\ \E lat \in latencies :
          clock' = [clock EXCEPT ![t] = @ + lat]
    /\ \/ /\ startTime' = [startTime EXCEPT ![t] = clock'[t]]
          /\ pollInterval' = [pollInterval EXCEPT ![t] = Ms(500)]
          /\ loopHead(t, clock'[t], clock'[t], Ms(500))
       \/ /\ \E e \in Thrown : enterCleanup(t, Throw(e))
          /\ UNCHANGED <<startTime, pollInterval>>
    /\ UNCHANGED <<config, sessionId, result, cancels, nextSid, answer,
                   deleted, pollWarnings>>

\* Mutant: the deadline is looked at again when the wait is over, and a poll
\* that would start past it is skipped.
pollTimerFiresChecked(t) ==
    /\ pc[t] = "wait"
    /\ clock' = [clock EXCEPT ![t] = @ + pollInterval[t]]
    /\ pollInterval' = [pollInterval EXCEPT ![t] = nextPollInterval(@)]
    /\ log' = [log EXCEPT ![t] = Call(@, MessagesCall(sessionId[t]))]
    /\ pc' = [pc EXCEPT ![t] =
                IF loopCondition(clock'[t], startTime[t]) THEN "poll"
                ELSE "final"]
    /\ UNCHANGED <<config, sessionId, startTime, outcome, result, cancels,
                   nextSid, answer, deleted, pollWarnings>>

\* The setTimeout of the loop body fires: the interval grows and
\* checkForResponse issues session.messages.
pollTimerFires(t) ==
    /\ pc[t] = "wait"
    /\ clock' = [clock EXCEPT ![t] = @ + pollInterval[t]]
    /\ pollInterval' = [pollInterval EXCEPT ![t] = nextPollInterval(@)]
    /\ log' = [log EXCEPT ![t] = Call(@, MessagesCall(sessionId[t]))]
    /\ pc' = [pc EXCEPT ![t] = "poll"]
    /\ UNCHANGED <<config, sessionId, startTime, outcome, result, cancels,
                   nextSid, answer, deleted, pollWarnings>>

\* Mutant: no try/catch in checkForResponse, a rejected session.messages
\* leaves pollForResponse.
checkForResponseReturnUncaught(t) ==
    /\ pc[t] = "poll"
    /\ \E lat \in latencies :
          clock' = [clock EXCEPT ![t] = @ + lat]
    /\ \E ans \in MessagesAnswers :
          /\ answer' = [answer EXCEPT ![t] = ans]
          /\ UNCHANGED pollWarnings
          /\ LET response == checkForResponse(ans)
             IN  IF ans.kind = "throw"
                 THEN enterCleanup(t, Throw(MkError("backend down")))
                 ELSE IF Truthy(response)
                 THEN enterCleanup(t, Value(response[1]))
                 ELSE loopHead(t, clock'[t], startTime[t], pollInterval[t])
    /\ UNCHANGED <<config, sessionId, startTime, pollInterval, result,
                   cancels, nextSid, deleted>>

\* session.messages of checkForResponse settles: a truthy response is
\* returned through the finally block, anything else goes round the loop.
checkForResponseReturn(t) ==
    /\ pc[t] = "poll"
    /\ \E lat \in latencies :
          clock' = [clock EXCEPT ![t] = @ + lat]
    /\ \E ans \in MessagesAnswers :
          /\ answer' = [answer EXCEPT ![t] = ans]
          /\ pollWarnings' = [pollWarnings EXCEPT ![t] =
                 IF ans.kind = "throw" THEN @ + 1 ELSE @]
          /\ LET response == checkForResponse(ans)
             IN  IF Truthy(response)
                 THEN enterCleanup(t, Value(response[1]))
                 ELSE loopHead(t, clock'[t], startTime[t], pollInterval[t])
    /\ UNCHANGED <<config, sessionId, startTime, pollInterval, result,
                   cancels, nextSid, deleted>>

\* Mutant: a timeout without agent text is thrown as an error.
getFinalResponseReturnThrows(t) ==
    /\ pc[t] = "final"
    /\ \E lat \in latencies :
          clock' = [clock EXCEPT ![t] = @ + lat]
    /\ \E ans \in MessagesAnswers :
          /\ answer' = [answer EXCEPT ![t] = ans]
          /\ LET finalResponse == getFinalResponse(ans)
             IN  enterCleanup(t, IF Truthy(finalResponse)
                                 THEN Value(finalResponse[1])
                                 ELSE Throw(MkError(timeoutNotice)))
    /\ UNCHANGED <<config, sessionId, startTime, pollInterval, result,
                   cancels, nextSid, deleted, pollWarnings>>

\* session.messages of getFinalResponse settles.
getFinalResponseReturn(t) ==
    /\ pc[t] = "final"
    /\ \E lat \in latencies :
          clock' = [clock EXCEPT ![t] = @ + lat]
    /\ \E ans \in MessagesAnswers :
          /\ answer' = [answer EXCEPT ![t] = ans]
          /\ LET finalResponse == getFinalResponse(ans)
             IN  enterCleanup(t, Value(IF Truthy(finalResponse)
                                       THEN finalResponse[1]
                                       ELSE timeoutNotice))
    /\ UNCHANGED <<config, sessionId, startTime, pollInterval, result,
                   cancels, nextSid, deleted, pollWarnings>>

\* Mutant: no try/catch around session.delete, whose error leaves the
\* finally block in place of the pending value or error.
cleanupSessionUncaught(out, deleteThrows) ==
    IF deleteThrows THEN Throw(MkError("delete failed")) ELSE out

\* try { await session.delete(..) } catch { }, inside the finally block of
\* processWithOpenCode: what leaves processWithOpenCode when `out` was
\* pending.
cleanupSession(out, deleteThrows) == out

\* session.delete settles, with an answer or an error: both are ignored and
\* the pending value or error of processWithOpenCode goes up to execute.
\* Nothing reads the clock from here on, so it is left where the loop saw it.
cleanupSessionReturn(t) ==
    /\ pc[t] = "cleanup"
    /\ \E deleteThrows \in BOOLEAN :
          /\ deleted' = [deleted EXCEPT ![t] =
                 IF deleteThrows THEN "threw" ELSE "ok"]
          /\ outcome' = [outcome EXCEPT ![t] = cleanupSession(@, deleteThrows)]
    /\ pc' = [pc EXCEPT ![t] = "resolved"]
    /\ UNCHANGED <<config, sessionId, startTime, pollInterval, clock, result,
                   log, cancels, nextSid, answer, pollWarnings>>

\* Mutant: execute continues only when the bridge returned a value; its
\* rejection finds no handler.
executeResumeValueOnly(t) ==
    /\ pc[t] = "resolved"
    /\ outcome[t].kind = "value"
    /\ LET r == executeTryCatch(log[t], t, ContextOf(t), outcome[t])
       IN  /\ log' = [log EXCEPT ![t] = r.bus]
           /\ result' = [result EXCEPT ![t] = r.settled]
    /\ pc' = [pc EXCEPT ![t] = "done"]
    /\ UNCHANGED <<config, sessionId, startTime, pollInterval, clock, outcome,
                   cancels, nextSid, answer, deleted, pollWarnings>>

\* execute resumes after `await this.processWithOpenCode(userText)`.
executeResume(t) ==
    /\ pc[t] = "resolved"
    /\ LET r == executeTryCatch(log[t], t, ContextOf(t), outcome[t])
       IN  /\ log' = [log EXCEPT ![t] = r.bus]
           /\ result' = [result EXCEPT ![t] = r.settled]
    /\ pc' = [pc EXCEPT ![t] = "done"]
    /\ UNCHANGED <<config, sessionId, startTime, pollInterval, clock, outcome,
                   cancels, nextSid, answer, deleted, pollWarnings>>

\* Mutant: cancelTask aborts the running execute where it stands.
cancelTaskAborting(t) ==
    /\ pc[t] # "idle"
    /\ pc[t] \in cancelAt
    /\ cancels[t] < MaxCancels
    /\ log' = [log EXCEPT ![t] = publishCanceled(@, t)]
    /\ cancels' = [cancels EXCEPT ![t] = @ + 1]
    /\ pc' = [pc EXCEPT ![t] = "done"]
    /\ result' = [result EXCEPT ![t] = "returned"]
    /\ UNCHANGED <<config, sessionId, startTime, pollInterval, clock,
                   outcome, nextSid, answer, deleted, pollWarnings>>

\* cancelTask(taskId, eventBus), called by the host for a task whose
\* execute has been called, at any later moment. It touches nothing of the
\* running execute.
cancelTask(t) ==
    /\ pc[t] # "idle"
    /\ pc[t] \in cancelAt
    /\ cancels[t] < MaxCancels
    /\ log' = [log EXCEPT ![t] = publishCanceled(@, t)]
    /\ cancels' = [cancels EXCEPT ![t] = @ + 1]
    /\ UNCHANGED <<config, pc, sessionId, startTime, pollInterval, clock,
                   outcome, result, nextSid, answer, deleted, pollWarnings>>

Next ==
    \E t \in TaskIds :
        \/ execute(t)
        \/ createSessionReturn(t)
        \/ sendPromptReturn(t)
        \/ pollTimerFires(t)
        \/ checkForResponseReturn(t)
        \/ getFinalResponseReturn(t)
        \/ cleanupSessionReturn(t)
        \/ executeResume(t)
        \/ cancelTask(t)

Spec == Init /\ [][Next]_vars

\* One task request on an executor constructed without options.timeout: the
\* default of 120000 ms lets the polling loop run through the whole backoff.
\* The host cancels only once execute has returned, and the backend answers
\* at once, so that the elapsed time is the sum of the waits.
InitDefault ==
    /\ InitExecutor
    /\ InitUtilities
    /\ NoServer
    /\ NoAgent
    /\ ReliableSink
    /\ client
    /\ optTimeout = 0
    /\ requests = {"t1"}
    /\ cancelAt = {"done"}
    /\ latencies = {0}
    /\ task = [t \in TaskIds |-> TRUE]
    /\ userMessage = [t \in TaskIds |->
                        [kind |-> "message", role |-> "user",
                         parts |-> <<TextPart("Hello")>>]]

SpecDefault == InitDefault /\ [][Next]_vars

\* Two task requests on one executor, run concurrently: a new task with a
\* text part and a known task with a file part only, a timeout of 400 ms
\* (one poll, then the last read), a backend that answers at once, and a
\* host that cancels only once execute has returned.
InitConcurrent ==
    /\ InitExecutor
    /\ InitUtilities
    /\ NoServer
    /\ NoAgent
    /\ ReliableSink
    /\ client
    /\ optTimeout = Ms(400)
    /\ requests = TaskIds
    /\ cancelAt = {"done"}
    /\ latencies = {0}
    /\ task = [t \in TaskIds |-> t = "t2"]
    /\ userMessage = [t \in TaskIds |->
                        [kind |-> "message", role |-> "user",
                         parts |-> IF t = "t1" THEN <<TextPart("Hello")>>
                                               ELSE <<FilePart>>]]

SpecConcurrent == InitConcurrent /\ [][Next]_vars

\* One task request on an executor with any timeout, the default included,
\* and a backend each of whose calls answers at once or after 130 s, more
\* than the longest timeout. The host cancels only once execute has
\* returned.
SlowLatencies == {0, Ms(130000)}

InitSlow ==
    /\ InitExecutor
    /\ InitUtilities
    /\ NoServer
    /\ NoAgent
    /\ ReliableSink
    /\ client
    /\ requests = {"t1"}
    /\ cancelAt = {"done"}
    /\ latencies = SlowLatencies
    /\ task = [t \in TaskIds |-> TRUE]
    /\ userMessage = [t \in TaskIds |->
                        [kind |-> "message", role |-> "user",
                         parts |-> <<TextPart("Hello")>>]]

SpecSlow == InitSlow /\ [][Next]_vars

\* One task request on any executor (with or without client, any timeout),
\* cancelled or not while session.create is pending or after execute has
\* returned, under the scheduling the runtime gives: every backend promise
\* settles, every timer fires, and a continuation whose promise has settled
\* is run. Nothing obliges the host to call execute or cancelTask.
InitLive ==
    /\ InitExecutor
    /\ InitUtilities
    /\ NoServer
    /\ NoAgent
    /\ ReliableSink
    /\ requests = {"t1"}
    /\ cancelAt = {"create", "done"}
    /\ latencies = {0}
    /\ task = [t \in TaskIds |-> t = "t2"]
    /\ userMessage = [t \in TaskIds |->
                        [kind |-> "message", role |-> "user",
                         parts |-> <<TextPart("Hello")>>]]

Settles(t) ==
    \/ createSessionReturn(t)
    \/ sendPromptReturn(t)
    \/ pollTimerFires(t)
    \/ checkForResponseReturn(t)
    \/ getFinalResponseReturn(t)
    \/ cleanupSessionReturn(t)
    \/ executeResume(t)

SpecLive ==
    InitLive /\ [][Next]_vars /\ \A t \in TaskIds : WF_vars(Settles(t))

\* ---------------------------------------------------- reading the log
IsPublish(x) == x.type = "publish"
IsCall(x) == x.type = "call"
IsStatus(x) == IsPublish(x) /\ x.event.kind = "status-update"
IsTerminal(x) == IsStatus(x) /\ x.event.final
IsCanceled(x) == IsStatus(x) /\ x.event.status.state = "canceled"
IsWorking(x) == IsStatus(x) /\ x.event.status.state = "working"
IsArtifact(x) == IsPublish(x) /\ x.event.kind = "artifact-update"
IsTaskSnapshot(x) == IsPublish(x) /\ x.event.kind = "task"
\* Only cancelTask publishes the canceled state: every other event on the
\* bus of a task comes from its execute call.
ByExecute(x) == IsPublish(x) /\ ~IsCanceled(x)
IsDelete(x) == IsCall(x) /\ x.call.op = "delete"

Idx(l) == 1..Len(l)
HasMessage(x) == "message" \in DOMAIN x.event.status
Returned(t) == pc[t] = "done" /\ result[t] = "returned"

\* ----------------------------------------------------------------- C1
\* C1: when an execute call that no cancelTask accompanied has returned,
\* exactly one status-update with final = true is on the task's bus,
\* whatever the backend did; and the canceled, final status-updates on the
\* bus are as many as the cancelTask invocations, each cancelTask
\* publishing nothing else.
C1_ExactlyOneTerminal ==
    \A t \in TaskIds :
        /\ (Returned(t) /\ cancels[t] = 0) => Len(SelectSeq(log[t], IsTerminal)) = 1
        /\ Returned(t) => Len(SelectSeq(log[t], LAMBDA x : ByExecute(x) /\ IsTerminal(x))) = 1
        /\ Len(SelectSeq(log[t], IsCanceled)) = cancels[t]
        /\ \A i \in Idx(log[t]) : IsCanceled(log[t][i]) => IsTerminal(log[t][i])

\* A run without cancel that returned after the prompt was rejected and the
\* delete was attempted.
C1_Witness ==
    /\ Returned("t1") /\ cancels["t1"] = 0
    /\ outcome["t1"].kind = "throw" /\ sessionId["t1"] # 0
    /\ Len(SelectSeq(log["t1"], IsDelete)) = 1

\* ----------------------------------------------------------------- C2
\* C2 (Scenario D): once cancelTask has published the canceled event while
\* the bridge of execute was still at work (a backend call follows the
\* canceled event), execute publishes nothing more on that bus.
C2_SilentAfterCancel ==
    \A t \in TaskIds :
        \A i, k, j \in Idx(log[t]) :
            (i < k /\ k < j /\ IsCanceled(log[t][i]) /\ IsCall(log[t][k]))
                => ~ByExecute(log[t][j])

\* ----------------------------------------------------------------- C3
\* C3: over one execute call and one cancelTask call of a task, in any
\* order and interleaving, at most one status-update with final = true is
\* published for the task.
C3_AtMostOneTerminal ==
    \A t \in TaskIds :
        cancels[t] <= 1 => Len(SelectSeq(log[t], IsTerminal)) <= 1

\* ----------------------------------------------------------------- C4
\* C4: the final status-update of execute is the last event execute
\* publishes: no event of execute follows it, on success and on failure.
C4_TerminalIsLast ==
    \A t \in TaskIds :
        \A i, j \in Idx(log[t]) :
            (i < j /\ ByExecute(log[t][i]) /\ IsTerminal(log[t][i]))
                => ~ByExecute(log[t][j])

C4_Witness ==
    /\ Returned("t1") /\ outcome["t1"].kind = "value"
    /\ cancels["t1"] = 0
    /\ IsTerminal(log["t1"][Len(log["t1"])])

\* ----------------------------------------------------------------- C5
\* C5: once execute has started, it has published exactly one status-update
\* that is not final, with state working and an agent message, before any
\* backend call; execute's final status-update and its artifact-update come
\* after it, and the artifact-update comes before the final status-update.
C5_WorkingThenArtifactThenTerminal ==
    \A t \in TaskIds :
        pc[t] # "idle" =>
            LET l == log[t]
                NonFinal(x) == IsStatus(x) /\ ~x.event.final
            IN  /\ Len(SelectSeq(l, NonFinal)) = 1
                /\ \E w \in Idx(l) :
                      /\ NonFinal(l[w]) /\ IsWorking(l[w])
                      /\ HasMessage(l[w])
                      /\ l[w].event.status.message.role = "agent"
                      /\ \A i \in Idx(l) :
                            (IsCall(l[i]) \/ IsArtifact(l[i])
                               \/ (ByExecute(l[i]) /\ IsTerminal(l[i]))) => w < i
                /\ \A a, f \in Idx(l) :
                      (IsArtifact(l[a]) /\ ByExecute(l[f]) /\ IsTerminal(l[f]))
                          => a < f
                /\ Returned(t) => Len(SelectSeq(l, LAMBDA x : ByExecute(x) /\ IsTerminal(x))) = 1

C5_Witness ==
    /\ Returned("t1")
    /\ Len(SelectSeq(log["t1"], IsArtifact)) = 1
    /\ Len(SelectSeq(log["t1"], IsCall)) >= 4
    /\ Len(SelectSeq(log["t1"], IsWorking)) = 1

\* ----------------------------------------------------------------- C6
\* C6: when the bridge returned the text r, execute has published an
\* artifact-update named "Result" whose only part is the text r, with
\* lastChunk = true, immediately followed by a status-update with state
\* completed, final = true and no message; and no other artifact.
C6_ResultThenCompleted ==
    \A t \in TaskIds :
        (Returned(t) /\ outcome[t].kind = "value") =>
            LET l == log[t] IN
            /\ Len(SelectSeq(l, IsArtifact)) = 1
            /\ \E i \in Idx(l) :
                  /\ IsArtifact(l[i])
                  /\ l[i].event.artifact.name = "Result"
                  /\ l[i].event.artifact.parts = <<TextPart(outcome[t].text)>>
                  /\ l[i].event.lastChunk
                  /\ i + 1 \in Idx(l)
                  /\ IsTerminal(l[i + 1])
                  /\ l[i + 1].event.status.state = "completed"
                  /\ ~HasMessage(l[i + 1])

\* The bridge returned the joined text of two parts, and cancelTask ran while
\* it was polling.
C6_Witness ==
    /\ Returned("t1") /\ outcome["t1"] = Value("Hi\nthere")
    /\ cancels["t1"] = 1

\* ----------------------------------------------------------------- C7
\* C7: when the bridge threw, execute has published an artifact-update named
\* "Error" and after it a status-update with state failed, final = true
\* and an agent message whose text is the text of the artifact's part, for
\* Error instances and for other thrown values.
C7_ErrorThenFailed ==
    \A t \in TaskIds :
        (Returned(t) /\ outcome[t].kind = "throw") =>
            LET l == log[t] IN
            /\ Len(SelectSeq(l, IsArtifact)) = 1
            /\ \E i, j \in Idx(l) :
                  /\ i < j
                  /\ IsArtifact(l[i])
                  /\ l[i].event.artifact.name = "Error"
                  /\ Len(l[i].event.artifact.parts) = 1
                  /\ IsTerminal(l[j])
                  /\ l[j].event.status.state = "failed"
                  /\ HasMessage(l[j])
                  /\ l[j].event.status.message.role = "agent"
                  /\ Len(l[j].event.status.message.parts) = 1
                  /\ l[j].event.status.message.parts[1].text
                        = l[i].event.artifact.parts[1].text

\* The prompt was rejected with a value that is not an Error.
C7_Witness ==
    /\ Returned("t1") /\ outcome["t1"].kind = "throw"
    /\ ~outcome["t1"].error.isError
    /\ sessionId["t1"] # 0

\* ----------------------------------------------------------------- C8
\* C8: for a new task (requestContext.task absent) the first event execute
\* publishes is a Task snapshot with state submitted whose history is
\* exactly the input user message; for a known task execute publishes no
\* Task snapshot and its first event is the working status-update.
C8_FirstEvent ==
    \A t \in TaskIds :
        pc[t] # "idle" =>
            LET l == log[t] IN
            /\ ~task[t] =>
                  /\ IsTaskSnapshot(l[1])
                  /\ l[1].event.status.state = "submitted"
                  /\ l[1].event.history = <<userMessage[t]>>
                  /\ l[1].event.id = t
                  /\ Len(SelectSeq(l, IsTaskSnapshot)) = 1
            /\ task[t] =>
                  /\ Len(SelectSeq(l, IsTaskSnapshot)) = 0
                  /\ IsWorking(l[1])

C8_Witness ==
    /\ ~task["t1"] /\ Returned("t1")
    /\ Len(userMessage["t1"].parts) = 3
    /\ IsTaskSnapshot(log["t1"][1])

\* ----------------------------------------------------------------- C9
\* C9: the promise of execute never rejects: whatever the bridge threw
\* (no client, create, prompt), execute has returned normally once it is
\* over, with the error published as events.
C9_NeverThrows ==
    \A t \in TaskIds :
        /\ result[t] # "threw"
        /\ pc[t] = "done" => result[t] = "returned"
        /\ (pc[t] = "done" /\ outcome[t].kind = "throw") =>
              \E i \in Idx(log[t]) :
                  IsTerminal(log[t][i]) /\ log[t][i].event.status.state = "failed"

\* No client is configured: the bridge threw before any backend call.
C9_Witness ==
    /\ ~client /\ pc["t1"] = "done" /\ outcome["t1"].kind = "throw"
    /\ result["t1"] = "returned"

\* ---------------------------------------------------------------- C10
\* C10: a cancelTask call publishes one status-update with state canceled
\* and final = true and changes nothing of the running execute (its place,
\* its session, its poll interval and clock, its pending outcome), and
\* once the bridge of a task is over the session it created has had its
\* delete call, cancelled or not.
C10_CancelStep ==
    \A t \in TaskIds :
        cancels'[t] # cancels[t] =>
            /\ cancels'[t] = cancels[t] + 1
            /\ Len(log'[t]) = Len(log[t]) + 1
            /\ SubSeq(log'[t], 1, Len(log[t])) = log[t]
            /\ IsCanceled(log'[t][Len(log'[t])])
            /\ IsTerminal(log'[t][Len(log'[t])])
            /\ UNCHANGED <<pc, sessionId, startTime, pollInterval, clock,
                           outcome, result, nextSid, answer, deleted, pollWarnings>>

C10_SessionDeleted ==
    \A t \in TaskIds :
        (pc[t] \in {"resolved", "done"} /\ sessionId[t] # 0) =>
            /\ Len(SelectSeq(log[t], IsDelete)) = 1
            /\ \E i \in Idx(log[t]) :
                  IsDelete(log[t][i]) /\ log[t][i].call.id = sessionId[t]

C10_CancelDoesNotInterrupt ==
    [][C10_CancelStep]_vars /\ []C10_SessionDeleted

\* cancelTask ran before a poll of the session, which was polled and deleted
\* afterwards.
C10_Witness ==
    /\ pc["t1"] = "done" /\ sessionId["t1"] # 0
    /\ \E i, k, d \in Idx(log["t1"]) :
          /\ i < k /\ k < d
          /\ IsCanceled(log["t1"][i])
          /\ IsCall(log["t1"][k]) /\ log["t1"][k].call.op = "messages"
          /\ IsDelete(log["t1"][d])

\* ------------------------------------------------- reading the backend
IsCreate(x) == IsCall(x) /\ x.call.op = "create"
IsPrompt(x) == IsCall(x) /\ x.call.op = "prompt"
IsMessages(x) == IsCall(x) /\ x.call.op = "messages"
IsWait(x) == x.type = "wait"
\* Calls made on a session: all but session.create.
OnSession(x) == IsCall(x) /\ ~IsCreate(x)
\* processWithOpenCode is over: its promise has settled.
BridgeOver(t) == pc[t] \in {"resolved", "done"}
\* The last read of getFinalResponse has been issued: every other
\* session.messages call follows a setTimeout of its own.
FinalRead(t) ==
    Len(SelectSeq(log[t], IsMessages)) = Len(SelectSeq(log[t], IsWait)) + 1
HasAssistant(ans) ==
    ans.kind = "data" /\ \E i \in Idx(ans.data) : ans.data[i].info.role = "assistant"
Contains(s, sub) ==
    \E i \in 1..(Len(s) - Len(sub) + 1) : SubSeq(s, i, i + Len(sub) - 1) = sub

\* ---------------------------------------------------------------- C11
\* C11 as claimed: once the bridge of an executor with a backend is over, it
\* has created one session and made one delete call, whatever session.create
\* answered.
C11_OneSessionOneDeleteAlways ==
    \A t \in TaskIds :
        (client /\ BridgeOver(t)) =>
            /\ sessionId[t] # 0
            /\ Len(SelectSeq(log[t], IsDelete)) = 1

\* C11 as amended: the bridge calls session.create exactly once; when create
\* returned an id, it has made exactly one delete call, for that id, whatever
\* prompt and polling did, and every call on a session names that id; when
\* create threw or returned no id, it has made no delete call.
C11_OneSessionOneDelete ==
    \A t \in TaskIds :
        (client /\ BridgeOver(t)) =>
            /\ Len(SelectSeq(log[t], IsCreate)) = 1
            /\ sessionId[t] # 0 =>
                  /\ Len(SelectSeq(log[t], IsDelete)) = 1
                  /\ \A i \in Idx(log[t]) :
                        OnSession(log[t][i]) => log[t][i].call.id = sessionId[t]
            /\ sessionId[t] = 0 => Len(SelectSeq(log[t], OnSession)) = 0

\* The prompt was rejected and the session deleted all the same.
C11_Witness ==
    /\ BridgeOver("t1") /\ sessionId["t1"] # 0
    /\ outcome["t1"].kind = "throw"
    /\ Len(SelectSeq(log["t1"], IsDelete)) = 1

\* ---------------------------------------------------------------- C12
\* C12: when session.delete settles, the value or error pending in
\* processWithOpenCode leaves it unchanged, whether delete answered or
\* threw; and once the bridge is over with a session created, the delete
\* call has been made and has settled, after a response, a timeout or a
\* rejected prompt alike.
C12_DeleteStep ==
    \A t \in TaskIds :
        (pc[t] = "cleanup" /\ pc'[t] # "cleanup") =>
            /\ outcome'[t] = outcome[t]
            /\ deleted'[t] \in {"ok", "threw"}

C12_DeleteAttempted ==
    \A t \in TaskIds :
        (BridgeOver(t) /\ sessionId[t] # 0) =>
            /\ Len(SelectSeq(log[t], IsDelete)) = 1
            /\ deleted[t] \in {"ok", "threw"}

C12_DeleteNeverMasks ==
    [][C12_DeleteStep]_vars /\ []C12_DeleteAttempted

\* session.delete threw after the poll had found a response, and execute
\* published that response.
C12_Witness ==
    /\ deleted["t1"] = "threw" /\ Returned("t1")
    /\ outcome["t1"] = Value("Hi there")
    /\ \E i \in Idx(log["t1"]) :
          IsArtifact(log["t1"][i])
          /\ log["t1"][i].event.artifact.parts = <<TextPart("Hi there")>>

C14_StopsOnAnyAgentMessage ==
    \A t \in TaskIds :
        pc[t] \in {"wait", "poll", "final"} => ~HasAssistant(answer[t])

\* ---------------------------------------------------------------- C15
\* C15: a poll whose session.messages call threw leaves the pending outcome
\* alone, logs one warning and goes on with the next setTimeout (of the
\* current interval) or, the timeout reached, with the last read; once
\* polling has begun the bridge returns a value only: the non-empty agent
\* text of the poll that ended the loop, after any number of failed polls,
\* or the result of the last read made when the elapsed time had reached the
\* timeout; the returned agent text is published as Result and completed.
C15_FailedPollStep ==
    \A t \in TaskIds :
        (pc[t] = "poll" /\ pc'[t] # "poll" /\ answer'[t].kind = "throw") =>
            /\ outcome'[t] = outcome[t]
            /\ pollWarnings'[t] = pollWarnings[t] + 1
            /\ \/ /\ pc'[t] = "wait"
                  /\ clock'[t] - startTime[t] < timeout
                  /\ log'[t] = SetTimeout(log[t], pollInterval[t])
               \/ /\ pc'[t] = "final"
                  /\ clock'[t] - startTime[t] >= timeout

C15_LoopLeftByTextOrTimeout ==
    \A t \in TaskIds :
        /\ (pc[t] \in {"cleanup", "resolved", "done"}
            /\ Len(SelectSeq(log[t], IsWait)) > 0) =>
              /\ outcome[t].kind = "value"
              /\ \/ /\ FinalRead(t)
                    /\ clock[t] - startTime[t] >= timeout
                 \/ /\ ~FinalRead(t)
                    /\ outcome[t].text # ""
                    /\ checkForResponse(answer[t]) = Some(outcome[t].text)
        /\ (Returned(t) /\ Len(SelectSeq(log[t], IsWait)) > 0) =>
              \E i, j \in Idx(log[t]) :
                  /\ i < j
                  /\ IsArtifact(log[t][i])
                  /\ log[t][i].event.artifact.name = "Result"
                  /\ log[t][i].event.artifact.parts = <<TextPart(outcome[t].text)>>
                  /\ IsTerminal(log[t][j])
                  /\ log[t][j].event.status.state = "completed"

C15_PollErrorsSwallowed ==
    [][C15_FailedPollStep]_vars /\ []C15_LoopLeftByTextOrTimeout

\* One poll failed, the next one saw the agent text before the timeout, and
\* execute published it and returned.
C15_Witness ==
    /\ Returned("t1") /\ pollWarnings["t1"] >= 1 /\ ~FinalRead("t1")
    /\ Len(SelectSeq(log["t1"], IsMessages)) = pollWarnings["t1"] + 1
    /\ outcome["t1"] = Value("Hi there")
    /\ \E j \in Idx(log["t1"]) :
          IsTerminal(log["t1"][j])
          /\ log["t1"][j].event.status.state = "completed"

\* ---------------------------------------------------------------- C16
\* The backoff of the claim, in eighths of a millisecond: 500, 750, 1125,
\* 1687.5, 2531.25, 3796.875, then 5000 for ever.
C16_Wait(n) ==
    IF n = 1 THEN Ms(500)
    ELSE IF n = 2 THEN Ms(750)
    ELSE IF n = 3 THEN Ms(1125)
    ELSE IF n = 4 THEN Ms(1687) + 4
    ELSE IF n = 5 THEN Ms(2531) + 2
    ELSE IF n = 6 THEN Ms(3796) + 7
    ELSE Ms(5000)

\* C16: the n-th setTimeout of an execution asks for C16_Wait(n), whatever
\* the polls before it answered: the first is 500 ms, each next one is
\* min(1.5 * previous, 5000 ms), the delays never decrease, never exceed
\* 5000 ms, are below it up to the sixth wait and exactly 5000 ms from the
\* seventh on.
C16_BackoffSequence ==
    \A t \in TaskIds :
        LET w == SelectSeq(log[t], IsWait)
        IN  \A n \in 1..Len(w) :
                /\ w[n].ms = C16_Wait(n)
                /\ w[n].ms <= Ms(5000)
                /\ n < 7 => w[n].ms < Ms(5000)
                /\ n >= 7 => w[n].ms = Ms(5000)
                /\ n > 1 =>
                      /\ w[n - 1].ms <= w[n].ms
                      /\ 2 * w[n].ms = IF 3 * w[n - 1].ms <= 2 * Ms(5000)
                                       THEN 3 * w[n - 1].ms
                                       ELSE 2 * Ms(5000)

\* Nine waits were requested, with failed polls and polls without agent text
\* among them; the seventh and the ninth are of 5000 ms.
C16_Witness ==
    LET w == SelectSeq(log["t1"], IsWait)
    IN  /\ Len(w) >= 9
        /\ w[6].ms < Ms(5000) /\ w[7].ms = Ms(5000) /\ w[9].ms = Ms(5000)
        /\ pollWarnings["t1"] >= 1 /\ pollWarnings["t1"] < 8

C18_CreateFailureStops ==
    \A t \in TaskIds :
        (client /\ BridgeOver(t) /\ sessionId[t] = 0) =>
            /\ Len(SelectSeq(log[t], IsCall)) = 1
            /\ Len(SelectSeq(log[t], IsCreate)) = 1
            /\ Len(SelectSeq(log[t], IsWait)) = 0
            /\ outcome[t].kind = "throw"
            /\ outcome[t].error \in
                  Thrown \cup {MkError("Failed to create OpenCode session")}
            /\ Returned(t) =>
                  /\ \E j \in Idx(log[t]) :
                        /\ IsTerminal(log[t][j])
                        /\ log[t][j].event.status.state = "failed"
                  /\ \A j \in Idx(log[t]) :
                        IsTerminal(log[t][j]) =>
                            log[t][j].event.status.state # "completed"

\* session.create answered without an id and execute has published failed.
C18_Witness ==
    /\ client /\ Returned("t1") /\ sessionId["t1"] = 0
    /\ outcome["t1"] = Throw(MkError("Failed to create OpenCode session"))
    /\ Len(SelectSeq(log["t1"], IsCreate)) = 1
    /\ \E j \in Idx(log["t1"]) :
          IsTerminal(log["t1"][j]) /\ log["t1"][j].event.status.state = "failed"

\* ---------------------------------------------------------------- C19
\* The prompt of execution t was rejected: the session exists and the
\* bridge is past session.prompt without having started to poll.
C19_PromptRejected(t) ==
    /\ sessionId[t] # 0
    /\ pc[t] \in {"cleanup", "resolved", "done"}
    /\ Len(SelectSeq(log[t], IsWait)) = 0

\* The text of the failed final status execute published for t.
C19_FailedText(t) ==
    LET j == CHOOSE j \in Idx(log[t]) :
                 IsTerminal(log[t][j]) /\ log[t][j].event.status.state = "failed"
    IN  log[t][j].event.status.message.parts[1].text

\* C19 as claimed: after a rejected prompt the failed status text carries
\* the message of the rejection, whatever was thrown.
C19_PromptErrorCarried ==
    \A t \in TaskIds :
        (C19_PromptRejected(t) /\ Returned(t)) =>
            Contains(C19_FailedText(t), outcome[t].error.message)

\* C19 as amended: after a rejected prompt there is no session.messages
\* call and no setTimeout, session.prompt was called once, the delete call
\* for the session has been made, the bridge throws what session.prompt
\* threw, and execute ends with a failed final status whose text is
\* "Error: " followed by the message of the rejection when it is an Error
\* instance, and "Error: Unknown error" when it is any other value.
C19_PromptFailureStops ==
    \A t \in TaskIds :
        C19_PromptRejected(t) =>
            /\ Len(SelectSeq(log[t], IsMessages)) = 0
            /\ Len(SelectSeq(log[t], IsPrompt)) = 1
            /\ Len(SelectSeq(log[t], IsDelete)) = 1
            /\ \A i \in Idx(log[t]) :
                  IsDelete(log[t][i]) => log[t][i].call.id = sessionId[t]
            /\ outcome[t].kind = "throw"
            /\ outcome[t].error \in Thrown
            /\ Returned(t) =>
                  /\ \E j \in Idx(log[t]) :
                        /\ IsTerminal(log[t][j])
                        /\ log[t][j].event.status.state = "failed"
                  /\ \A j \in Idx(log[t]) :
                        IsTerminal(log[t][j]) =>
                            log[t][j].event.status.state # "completed"
                  /\ outcome[t].error.isError =>
                        C19_FailedText(t) = "Error: " \o outcome[t].error.message
                  /\ ~outcome[t].error.isError =>
                        C19_FailedText(t) = "Error: Unknown error"

\* session.prompt was rejected with Error("backend down"); the session was
\* deleted and execute published failed with that message.
C19_Witness ==
    /\ C19_PromptRejected("t1") /\ Returned("t1")
    /\ outcome["t1"] = Throw(MkError("backend down"))
    /\ C19_FailedText("t1") = "Error: backend down"
    /\ deleted["t1"] \in {"ok", "threw"}

\* ---------------------------------------------------------------- C20
\* A step of execution t leaves everything the other executions hold as it
\* was: their place, session id, pending outcome, events and calls.
C20_OwnStep ==
    \A t \in TaskIds :
        pc'[t] # pc[t] =>
            \A u \in TaskIds \ {t} :
                /\ pc'[u] = pc[u]
                /\ sessionId'[u] = sessionId[u]
                /\ outcome'[u] = outcome[u]
                /\ log'[u] = log[u]
                /\ pollInterval'[u] = pollInterval[u]
                /\ answer'[u] = answer[u]

\* Every prompt, messages and delete call of an execution names the session
\* that execution created, its prompt carries its own user text, no session
\* id is held by two executions, and every event of a task carries that
\* task's id.
C20_OwnSession ==
    /\ \A t \in TaskIds : \A i \in Idx(log[t]) :
          LET x == log[t][i] IN
          /\ OnSession(x) => (sessionId[t] # 0 /\ x.call.id = sessionId[t])
          /\ IsPrompt(x) =>
                x.call.parts = <<SPart("text", userText(userMessage[t]))>>
          /\ IsPublish(x) =>
                IF x.event.kind = "task" THEN x.event.id = t
                                         ELSE x.event.taskId = t
    /\ \A t, u \in TaskIds :
          (t # u /\ sessionId[t] # 0) =>
              /\ sessionId[u] # sessionId[t]
              /\ \A i \in Idx(log[u]) :
                    OnSession(log[u][i]) => log[u][i].call.id # sessionId[t]

\* C20: concurrent executions on one executor are independent, in every
\* interleaving of their steps.
C20_IndependentExecutions ==
    [][C20_OwnStep]_vars /\ []C20_OwnSession

\* Both executions have returned, each after polling and deleting a session
\* of its own; the second was created while the first was still running.
C20_Witness ==
    /\ Returned("t1") /\ Returned("t2")
    /\ sessionId["t1"] = 2 /\ sessionId["t2"] = 1
    /\ \A t \in TaskIds :
          /\ Len(SelectSeq(log[t], IsMessages)) >= 1
          /\ Len(SelectSeq(log[t], IsDelete)) = 1
          /\ log[t][Len(log[t])].event.taskId = t

\* ======================================================= client.ts
\* ------------------------------------------------------------ new URL
Char(s, i) == SubSeq(s, i, i)
UpperCase == "ABCDEFGHIJKLMNOPQRSTUVWXYZ"
LowerCase == "abcdefghijklmnopqrstuvwxyz"
Digits == "0123456789"
InStr(c, str) == \E k \in 1..Len(str) : Char(str, k) = c
IsAlpha(c) == InStr(c, UpperCase) \/ InStr(c, LowerCase)
IsSchemeChar(c) == IsAlpha(c) \/ InStr(c, Digits) \/ InStr(c, "+-.")

\* The lower-case letter of each upper-case letter.
LowerOf ==
    [c \in {Char(UpperCase, k) : k \in 1..Len(UpperCase)} |->
        Char(LowerCase, CHOOSE k \in 1..Len(UpperCase) : Char(UpperCase, k) = c)]

ToLower(c) == IF c \in DOMAIN LowerOf THEN LowerOf[c] ELSE c

RECURSIVE LowerAll(_)
LowerAll(s) ==
    IF Len(s) = 0 THEN "" ELSE ToLower(Char(s, 1)) \o LowerAll(SubSeq(s, 2, Len(s)))

\* The position of the first ":" of s, 0 when it has none.
ColonAt(s) ==
    IF \E i \in 1..Len(s) : Char(s, i) = ":"
    THEN CHOOSE i \in 1..Len(s) :
             Char(s, i) = ":" /\ \A j \in 1..(i - 1) : Char(s, j) # ":"
    ELSE 0

\* The schemes for which the URL parser requires a host.
HostSchemes == {"http", "https", "ftp", "ws", "wss"}

RECURSIVE SkipSlashes(_)
SkipSlashes(s) ==
    IF Len(s) > 0 /\ Char(s, 1) \in {"/", "\\"}
    THEN SkipSlashes(SubSeq(s, 2, Len(s)))
    ELSE s

\* The host of what follows "scheme:": up to the next "/", "?" or "#".
HostOf(rest) ==
    LET r == SkipSlashes(rest)
        ends == {i \in 1..Len(r) : Char(r, i) \in {"/", "?", "#"}}
        end == IF ends = {} THEN Len(r) + 1
               ELSE CHOOSE i \in ends : \A j \in ends : i <= j
    IN  SubSeq(r, 1, end - 1)

\* new URL(url) without a base, as far as the scheme and the host decide:
\* a scheme (a letter, then letters, digits, "+", "-", ".") before the first
\* ":", lower-cased into `protocol`; a non-empty host without a space for
\* the schemes that need one. Anything else throws TypeError.
ParseURL(url) ==
    LET i == ColonAt(url)
        okScheme == /\ i > 1
                    /\ IsAlpha(Char(url, 1))
                    /\ \A j \in 2..(i - 1) : IsSchemeChar(Char(url, j))
        scheme == LowerAll(SubSeq(url, 1, i - 1))
        host == HostOf(SubSeq(url, i + 1, Len(url)))
    IN  IF ~okScheme THEN [valid |-> FALSE, protocol |-> ""]
        ELSE IF scheme \in HostSchemes /\ (host = "" \/ InStr(" ", host))
        THEN [valid |-> FALSE, protocol |-> ""]
        ELSE [valid |-> TRUE, protocol |-> scheme \o ":"]

\* ------------------------------------------------------------- inputs
Urls ==
    { "http://a.example", "https://a.example", "HTTP://A.example",
      "http:a.example", "ftp://x", "file:///etc/passwd", "mailto:a@b",
      "not a url", "", "//a.example", "http://", "1http://x" }

\* new Error(message)
UError(m) == [isError |-> TRUE, name |-> "Error", message |-> m]

\* What fetch and response.json() reject with: the timeout of
\* AbortSignal.timeout, an abort, a network failure, a value that is not an
\* Error.
TimeoutError ==
    [isError |-> TRUE, name |-> "TimeoutError",
     message |-> "The operation was aborted due to timeout"]
AbortError ==
    [isError |-> TRUE, name |-> "AbortError",
     message |-> "This operation was aborted"]
FetchErrors ==
    { TimeoutError, AbortError,
      [isError |-> TRUE, name |-> "TypeError", message |-> "fetch failed"],
      [isError |-> FALSE, name |-> "", message |-> "boom"] }

\* Decoded bodies: a JSON object, of which name, url and version are looked
\* at (<<>>: the field is absent), JSON null, or a body that is not JSON.
JsonObjects ==
    { [json |-> "object", name |-> n, url |-> u, version |-> v] :
        n \in {Null, Some(""), Some("Agent")},
        u \in {Null, Some(""), Some("http://a.example")},
        v \in {Null, Some("1.0")} }
JsonNull == [json |-> "null", name |-> Null, url |-> Null, version |-> Null]
NotJson == [json |-> "invalid", name |-> Null, url |-> Null, version |-> Null]
Bodies == JsonObjects \cup {JsonNull, NotJson}

Responses ==
    { [status |-> st[1], statusText |-> st[2], body |-> b] :
        st \in { <<200, "OK">>, <<404, "Not Found">>,
                 <<500, "Internal Server Error">> },
        b \in Bodies }

\* response.ok
Ok(r) == r.status >= 200 /\ r.status <= 299

\* !x for a field of the decoded body
Falsy(x) == x = Null \/ x[1] = ""

Resolved(v) == [kind |-> "resolved", value |-> v]
Rejected(e) == [kind |-> "rejected", error |-> e]

FetchRequest(url) ==
    [kind |-> "fetch", url |-> url, timeout |-> Ms(10000)]

\* The catch block of fetchAgentCard.
catchFetch(url, error) ==
    IF error.isError
    THEN IF error.name \in {"TimeoutError", "AbortError"}
         THEN UError("Network timeout while fetching Agent Card from " \o url)
         ELSE error
    ELSE UError("Failed to fetch Agent Card: " \o error.message)

\* ------------------------------------------------------ fetchAgentCard
\* Mutant: the protocol is not checked.
validateUrlAnyScheme(url) ==
    IF ~ParseURL(url).valid THEN Some(UError("Invalid URL format")) ELSE Null

\* The first lines of fetchAgentCard: the error they throw, or null.
validateUrl(url) ==
    IF ~ParseURL(url).valid THEN Some(UError("Invalid URL format"))
    ELSE IF ParseURL(url).protocol \notin {"http:", "https:"}
    THEN Some(UError("Only HTTP/HTTPS URLs are allowed"))
    ELSE Null

\* fetchAgentCard(url) up to its first await.
fetchAgentCard ==
    /\ utilPc = "idle"
    /\ \E url \in Urls :
          /\ utilCall' = [fn |-> "fetchAgentCard", url |-> url]
          /\ IF validateUrl(url) # Null
             THEN /\ utilResult' = Rejected(validateUrl(url)[1])
                  /\ utilPc' = "settled"
                  /\ UNCHANGED net
             ELSE /\ net' = Append(net,
                        FetchRequest(url \o "/.well-known/agent-card.json"))
                  /\ utilPc' = "fetch"
                  /\ UNCHANGED utilResult
    /\ UNCHANGED <<executorVars, pluginVars, fetched>>

\* fetch settles: a rejection or a response that is not ok goes through the
\* catch block, an ok response is decoded.
fetchReturn ==
    /\ utilPc = "fetch"
    /\ \/ \E e \in FetchErrors :
             /\ utilResult' = Rejected(catchFetch(utilCall.url, e))
             /\ utilPc' = "settled"
             /\ UNCHANGED fetched
       \/ \E r \in Responses :
             /\ fetched' = r
             /\ IF ~Ok(r)
                THEN /\ utilResult' = Rejected(catchFetch(utilCall.url,
                            UError("Failed to fetch Agent Card: "
                                   \o ToString(r.status) \o " " \o r.statusText)))
                     /\ utilPc' = "settled"
                ELSE /\ utilPc' = "json"
                     /\ UNCHANGED utilResult
    /\ UNCHANGED <<executorVars, pluginVars, utilCall, net>>

\* Mutant: the decoded body is returned without looking at name and url.
jsonReturnUnvalidated ==
    /\ utilPc = "json"
    /\ \E aborted \in BOOLEAN :
          LET data == fetched.body
              thrown ==
                  IF aborted THEN Some(TimeoutError)
                  ELSE IF data.json = "invalid"
                  THEN Some([isError |-> TRUE, name |-> "SyntaxError",
                             message |-> "Unexpected token"])
                  ELSE Null
          IN  utilResult' = IF thrown # Null
                            THEN Rejected(catchFetch(utilCall.url, thrown[1]))
                            ELSE Resolved(data)
    /\ utilPc' = "settled"
    /\ UNCHANGED <<executorVars, pluginVars, utilCall, net, fetched>>

\* response.json() settles: it rejects when the signal fired or the body is
\* not JSON; reading data.name of null throws; a body without name or url is
\* refused; anything else is returned as it is.
jsonReturn ==
    /\ utilPc = "json"
    /\ \E aborted \in BOOLEAN :
          LET data == fetched.body
              thrown ==
                  IF aborted THEN Some(TimeoutError)
                  ELSE IF data.json = "invalid"
                  THEN Some([isError |-> TRUE, name |-> "SyntaxError",
                             message |-> "Unexpected token"])
                  ELSE IF data.json = "null"
                  THEN Some([isError |-> TRUE, name |-> "TypeError",
                             message |-> "Cannot read properties of null"])
                  ELSE IF Falsy(data.name) \/ Falsy(data.url)
                  THEN Some(UError("Invalid Agent Card: missing required fields"))
                  ELSE Null
          IN  utilResult' = IF thrown # Null
                            THEN Rejected(catchFetch(utilCall.url, thrown[1]))
                            ELSE Resolved(data)
    /\ utilPc' = "settled"
    /\ UNCHANGED <<executorVars, pluginVars, utilCall, net, fetched>>

\* ------------------------------------------------------------ listTasks
\* The clients a utility can be handed: one whose agent echoes the message,
\* one whose agent answers with a task, one whose calls reject, and none.
Clients == {"echo", "task", "failing", "none"}

ListTasksRequests ==
    [contextId : {Null, Some("ctx-1")},
     status    : {Null, Some(<<"working">>)},
     limit     : {Null, Some(50)},
     pageToken : {Null, Some("page-2")}]

\* Mutant: the request is forwarded to the client.
listTasksForwarded ==
    /\ utilPc = "idle"
    /\ \E c \in Clients, params \in ListTasksRequests :
          /\ utilCall' = [fn |-> "listTasks", client |-> c, params |-> params]
          /\ net' = Append(net, [kind |-> "listTasks", params |-> params])
          /\ utilResult' = Resolved([tasks |-> <<>>, nextPageToken |-> ""])
    /\ utilPc' = "settled"
    /\ UNCHANGED <<executorVars, pluginVars, fetched>>

\* listTasks(_client, _params): no await, the placeholder is returned.
listTasks ==
    /\ utilPc = "idle"
    /\ \E c \in Clients, params \in ListTasksRequests :
          /\ utilCall' = [fn |-> "listTasks", client |-> c, params |-> params]
          /\ utilResult' = Resolved([tasks |-> <<>>, nextPageToken |-> ""])
    /\ utilPc' = "settled"
    /\ UNCHANGED <<executorVars, pluginVars, net, fetched>>

\* ------------------------------------------------------- sendToA2AAgent
MessageTexts == {"", "Hello", "Hi\nthere"}
SessionIds == {Null, Some("ctx-1")}
\* The blocking argument: omitted, true or false.
BlockingArgs == {Null, Some(TRUE), Some(FALSE)}
\* uuidv4()
Uuids == {"uuid-1", "uuid-2"}

\* Mutant: the request is always a blocking one.
sendParamsAlwaysBlocking(message, sid, blocking, uuid) ==
    [message |-> [kind |-> "message", messageId |-> uuid, role |-> "user",
                  parts |-> <<TextPart(message)>>],
     sessionId |-> sid,
     configuration |-> [blocking |-> TRUE]]

\* const params of sendToA2AAgent; blocking defaults to true.
sendParams(message, sid, blocking, uuid) ==
    [message |-> [kind |-> "message", messageId |-> uuid, role |-> "user",
                  parts |-> <<TextPart(message)>>],
     sessionId |-> sid,
     configuration |-> [blocking |-> IF blocking = Null THEN TRUE
                                                         ELSE blocking[1]]]

\* What client.sendMessage(params) settles with, by the kind of client.
SendAnswers(c, params) ==
    IF c = "echo"
    THEN { Resolved([kind |-> "message", role |-> "agent",
                     messageId |-> "m-1", parts |-> params.message.parts]) }
    ELSE IF c = "task"
    THEN { Resolved([kind |-> "task", id |-> "task-1", contextId |-> "ctx-9",
                     status |-> [state |-> st]]) :
             st \in IF params.configuration.blocking
                    THEN {"completed", "failed"}
                    ELSE {"submitted", "working"} }
    ELSE { Rejected(e) : e \in Thrown }

\* sendToA2AAgent(client, message, sessionId, blocking) up to its await; on
\* a missing client the call of sendMessage throws.
sendToA2AAgent ==
    /\ utilPc = "idle"
    /\ \E c \in Clients, message \in MessageTexts, sid \in SessionIds,
          blocking \in BlockingArgs, uuid \in Uuids :
          /\ utilCall' = [fn |-> "sendToA2AAgent", client |-> c,
                          message |-> message, sessionId |-> sid,
                          blocking |-> blocking]
          /\ IF c = "none"
             THEN /\ utilResult' = Rejected(
                        [isError |-> TRUE, name |-> "TypeError",
                         message |-> "Cannot read properties of undefined"])
                  /\ utilPc' = "settled"
                  /\ UNCHANGED net
             ELSE /\ net' = Append(net,
                        [kind |-> "sendMessage",
                         params |-> sendParams(message, sid, blocking, uuid)])
                  /\ utilPc' = "send"
                  /\ UNCHANGED utilResult
    /\ UNCHANGED <<executorVars, pluginVars, fetched>>

\* client.sendMessage settles: its result or rejection is that of
\* sendToA2AAgent.
sendMessageReturn ==
    /\ utilPc = "send"
    /\ \E a \in SendAnswers(utilCall.client, net[Len(net)].params) :
          utilResult' = a
    /\ utilPc' = "settled"
    /\ UNCHANGED <<executorVars, pluginVars, utilCall, net, fetched>>

NextClient ==
    \/ fetchAgentCard
    \/ fetchReturn
    \/ jsonReturn
    \/ listTasks
    \/ sendToA2AAgent
    \/ sendMessageReturn

\* One call of a client.ts utility; no task is requested of the executor.
InitClient ==
    /\ InitExecutor
    /\ InitUtilities
    /\ NoServer
    /\ NoAgent
    /\ ReliableSink
    /\ client
    /\ optTimeout = 0
    /\ requests = {}
    /\ cancelAt = {}
    /\ latencies = {0}
    /\ task = [t \in TaskIds |-> TRUE]
    /\ userMessage = [t \in TaskIds |->
                        [kind |-> "message", role |-> "user",
                         parts |-> <<TextPart("Hello")>>]]

SpecClient == InitClient /\ [][NextClient]_vars

\* ---------------------------------------------------------------- C21
\* C21: fetchAgentCard called with a string that new URL refuses, or with a
\* URL whose protocol is neither "http:" nor "https:", rejects and issues no
\* fetch; a fetch request is only ever issued for an http or https URL, and
\* goes to "<url>/.well-known/agent-card.json" with a timeout of 10000 ms.
C21_InvalidUrlNoNetwork ==
    utilCall.fn = "fetchAgentCard" =>
        LET url == utilCall.url
            http == /\ ParseURL(url).valid
                    /\ ParseURL(url).protocol \in {"http:", "https:"}
        IN  /\ ~http =>
                  /\ net = <<>>
                  /\ utilPc = "settled"
                  /\ utilResult.kind = "rejected"
                  /\ utilResult.error.message \in
                        {"Invalid URL format", "Only HTTP/HTTPS URLs are allowed"}
            /\ utilResult = Rejected(UError("Only HTTP/HTTPS URLs are allowed"))
                  => (ParseURL(url).valid /\ ~http)
            /\ net # <<>> =>
                  /\ http
                  /\ net = <<[kind |-> "fetch",
                              url |-> url \o "/.well-known/agent-card.json",
                              timeout |-> Ms(10000)]>>

\* Scenario E: fetchAgentCard("ftp://x") was refused for its protocol, with
\* no fetch made.
C21_Witness ==
    /\ utilCall = [fn |-> "fetchAgentCard", url |-> "ftp://x"]
    /\ utilResult = Rejected(UError("Only HTTP/HTTPS URLs are allowed"))
    /\ net = <<>>

\* ---------------------------------------------------------------- C22
\* The decoded body has a name and a url.
C22_HasNameAndUrl(data) ==
    data.json = "object" /\ ~Falsy(data.name) /\ ~Falsy(data.url)

\* C22 as claimed: once the request for an http/https URL is out,
\* fetchAgentCard fails for two reasons only, the network timeout and the
\* body without name or url; otherwise it returns the decoded body.
C22_FailsOnlyForCardOrTimeout ==
    (utilCall.fn = "fetchAgentCard" /\ net # <<>> /\ utilPc = "settled") =>
        \/ utilResult.kind = "resolved"
        \/ utilResult.error.message \in
              { "Network timeout while fetching Agent Card from " \o utilCall.url,
                "Invalid Agent Card: missing required fields" }

\* C22 as amended: for an http/https URL fetchAgentCard makes one fetch and
\* never a second one; it returns only the body of an ok response that
\* decodes to an object with a name and a url, and returns it unchanged; it
\* fails for an ok response whose body lacks name or url, and also for a
\* response that is not ok (whatever its body), for a body that is not
\* JSON or is null, and for a fetch that rejects; a timeout or an abort
\* never surfaces as such but as the Error "Network timeout while fetching
\* Agent Card from <url>", and every failure is an Error instance.
C22_FetchOutcome ==
    (utilCall.fn = "fetchAgentCard" /\ net # <<>>) =>
        /\ Len(net) = 1
        /\ utilPc \in {"fetch", "json", "settled"}
        /\ utilPc = "settled" =>
              /\ utilResult.kind \in {"resolved", "rejected"}
              /\ utilResult.kind = "resolved" =>
                    /\ Ok(fetched)
                    /\ C22_HasNameAndUrl(fetched.body)
                    /\ utilResult.value = fetched.body
              /\ (fetched # NoResponse /\ ~Ok(fetched)) =>
                    utilResult = Rejected(UError(
                        "Failed to fetch Agent Card: " \o ToString(fetched.status)
                        \o " " \o fetched.statusText))
              /\ (fetched # NoResponse /\ Ok(fetched)
                  /\ ~C22_HasNameAndUrl(fetched.body)) =>
                    utilResult.kind = "rejected"
              /\ utilResult.kind = "rejected" =>
                    /\ utilResult.error.isError
                    /\ utilResult.error.name \notin {"TimeoutError", "AbortError"}
                    /\ utilResult.error.message \in
                          { "Network timeout while fetching Agent Card from "
                                \o utilCall.url,
                            "Invalid Agent Card: missing required fields",
                            "Failed to fetch Agent Card: boom",
                            "fetch failed", "Unexpected token",
                            "Cannot read properties of null" }
                          \cup { "Failed to fetch Agent Card: " \o ToString(r.status)
                                     \o " " \o r.statusText : r \in Responses }

\* The card served at https://a.example was returned as decoded, version
\* included.
C22_Witness ==
    /\ utilCall = [fn |-> "fetchAgentCard", url |-> "https://a.example"]
    /\ utilPc = "settled"
    /\ fetched.status = 200
    /\ utilResult = Resolved([json |-> "object", name |-> Some("Agent"),
                              url |-> Some("http://a.example"),
                              version |-> Some("1.0")])

\* ---------------------------------------------------------------- C23
\* C23: listTasks, whatever client and request it is given, has settled at
\* once with {tasks: [], nextPageToken: ""} and has made no call.
C23_ListTasksEmpty ==
    utilCall.fn = "listTasks" =>
        /\ utilPc = "settled"
        /\ utilResult = Resolved([tasks |-> <<>>, nextPageToken |-> ""])
        /\ net = <<>>

\* listTasks was given a client whose calls reject and a request with every
\* filter set.
C23_Witness ==
    /\ utilCall.fn = "listTasks" /\ utilCall.client = "failing"
    /\ utilCall.params = [contextId |-> Some("ctx-1"),
                          status |-> Some(<<"working">>),
                          limit |-> Some(50), pageToken |-> Some("page-2")]
    /\ utilResult.kind = "resolved" /\ utilResult.value.tasks = <<>>

\* ---------------------------------------------------------------- C24
\* C24: sendToA2AAgent makes one sendMessage call whose message has role
\* user and one text part holding the given text, whose sessionId is the
\* one given and whose configuration.blocking is the flag given (true when
\* omitted); it settles as the client's call settled: with a message from
\* an echoing agent, whose text is the text sent, with a task from an agent
\* that answers with tasks, with the client's rejection otherwise.
C24_SendPassesThrough ==
    (utilCall.fn = "sendToA2AAgent" /\ net # <<>>) =>
        LET params == net[1].params IN
        /\ Len(net) = 1
        /\ net[1].kind = "sendMessage"
        /\ params.message.kind = "message"
        /\ params.message.role = "user"
        /\ params.message.parts = <<[kind |-> "text", text |-> utilCall.message]>>
        /\ params.message.messageId \in Uuids
        /\ params.sessionId = utilCall.sessionId
        /\ utilCall.blocking # Null =>
              params.configuration.blocking = utilCall.blocking[1]
        /\ utilCall.blocking = Null => params.configuration.blocking
        /\ utilPc = "settled" =>
              /\ utilResult \in SendAnswers(utilCall.client, params)
              /\ utilCall.client = "echo" =>
                    /\ utilResult.kind = "resolved"
                    /\ utilResult.value.kind = "message"
                    /\ Len(utilResult.value.parts) = 1
                    /\ utilResult.value.parts[1].text = utilCall.message
              /\ utilCall.client = "task" =>
                    /\ utilResult.kind = "resolved"
                    /\ utilResult.value.kind = "task"
              /\ utilCall.client = "failing" =>
                    /\ utilResult.kind = "rejected"
                    /\ utilResult.error \in Thrown

\* A non-blocking send of "Hi\nthere" to an echoing agent came back with the
\* same text.
C24_Witness ==
    /\ utilCall.fn = "sendToA2AAgent" /\ utilCall.client = "echo"
    /\ utilCall.message = "Hi\nthere" /\ utilCall.blocking = Some(FALSE)
    /\ utilPc = "settled"
    /\ ~net[1].params.configuration.blocking
    /\ utilResult.value.parts[1].text = "Hi\nthere"

\* ---------------------------------------------------------------- C25
\* C25: every execute call that was started eventually has published its
\* final status-update and returned; a polling loop that is waiting or
\* polling eventually is left; every session that was created eventually
\* has had its delete call, which eventually settles.
C25_EventuallyDone ==
    \A t \in TaskIds :
        /\ (pc[t] # "idle") ~>
              (/\ Returned(t)
               /\ \E i \in Idx(log[t]) :
                     ByExecute(log[t][i]) /\ IsTerminal(log[t][i]))
        /\ (pc[t] \in {"wait", "poll"}) ~>
              (pc[t] \in {"final", "cleanup", "resolved", "done"})
        /\ (sessionId[t] # 0) ~>
              (Len(SelectSeq(log[t], IsDelete)) = 1 /\ deleted[t] # "none")

\* The loop ran into the default deadline of 120000 ms with a backend that
\* never answered, and execute returned with the session deleted.
C25_Witness ==
    /\ optTimeout = 0 /\ Returned("t1") /\ FinalRead("t1")
    /\ clock["t1"] - startTime["t1"] >= Ms(120000)
    /\ deleted["t1"] # "none"

\* ---------------------------------------------------------------- C26
\* The texts of the text-typed parts of `parts` from part k on, in part
\* order, each but the first preceded by a newline.
RECURSIVE C26_TextFrom(_, _, _)
C26_TextFrom(parts, k, first) ==
    IF k > Len(parts) THEN ""
    ELSE IF parts[k].type # "text" THEN C26_TextFrom(parts, k + 1, first)
    ELSE (IF first THEN "" ELSE "\n") \o parts[k].text
         \o C26_TextFrom(parts, k + 1, FALSE)

\* The position of the last assistant message of a list, 0 when none.
C26_LastAssistant(ms) ==
    LET a == {i \in 1..Len(ms) : ms[i].info.role = "assistant"}
    IN  IF a = {} THEN 0 ELSE CHOOSE i \in a : \A j \in a : j <= i

\* C26: when the loop was left by a poll, the bridge returns the texts of
\* the text parts of the last assistant message of that poll's list, in
\* part order, joined by newlines, and nothing of the other messages or
\* parts; every poll was preceded by a wait of its own, the first of 500 ms;
\* a text seen at the first poll is returned after that one wait and that
\* one messages query, 500 ms plus the time the query took after polling
\* began.
C26_PollText ==
    \A t \in TaskIds :
        (/\ pc[t] \in {"cleanup", "resolved", "done"}
         /\ Len(SelectSeq(log[t], IsWait)) > 0
         /\ ~FinalRead(t)) =>
            LET ms == answer[t].data
                k == C26_LastAssistant(ms)
                waits == SelectSeq(log[t], IsWait)
            IN  /\ answer[t].kind = "data"
                /\ k > 0
                /\ outcome[t] = Value(C26_TextFrom(ms[k].parts, 1, TRUE))
                /\ Len(SelectSeq(log[t], IsMessages)) = Len(waits)
                /\ waits[1].ms = Ms(500)
                /\ Len(waits) = 1 =>
                      clock[t] - startTime[t] \in {Ms(500) + l : l \in latencies}

\* The first poll saw [assistant "old", user "more", assistant (tool, "Hi",
\* "there")] and execute returned "Hi\nthere" after one wait and one query.
C26_Witness ==
    /\ Returned("t1") /\ outcome["t1"] = Value("Hi\nthere")
    /\ Len(answer["t1"].data) = 3
    /\ Len(SelectSeq(log["t1"], IsWait)) = 1
    /\ Len(SelectSeq(log["t1"], IsMessages)) = 1
    /\ clock["t1"] - startTime["t1"] = Ms(500)

\* ---------------------------------------------------------------- C27
\* The text of the first text-kind part from part k on, "" when none.
RECURSIVE C27_FirstText(_, _)
C27_FirstText(parts, k) ==
    IF k > Len(parts) THEN ""
    ELSE IF parts[k].kind = "text" THEN parts[k].text
    ELSE C27_FirstText(parts, k + 1)

\* C27: every session.prompt call of an execution carries exactly one part,
\* of type text, whose text is that of the first text-kind part of the
\* request's user message, or "" when it has none; an execution prompts at
\* most once.
C27_PromptIsFirstText ==
    \A t \in TaskIds :
        /\ Len(SelectSeq(log[t], IsPrompt)) <= 1
        /\ \A i \in Idx(log[t]) :
              IsPrompt(log[t][i]) =>
                  log[t][i].call.parts =
                      <<[type |-> "text",
                         text |-> C27_FirstText(userMessage[t].parts, 1)]>>

\* A user message made of a file part, "Hello" and "Bye" was prompted as
\* "Hello".
C27_Witness ==
    /\ userMessage["t1"].parts = <<FilePart, TextPart("Hello"), TextPart("Bye")>>
    /\ \E i \in Idx(log["t1"]) :
          /\ IsPrompt(log["t1"][i])
          /\ log["t1"][i].call.parts = <<[type |-> "text", text |-> "Hello"]>>

\* ---------------------------------------------------------------- C28
\* The timeout of the claim: the configured value, 120000 ms when none.
C28_Timeout == IF optTimeout = 0 THEN Ms(120000) ELSE optTimeout

\* When session.prompt is acknowledged, at whatever time, the elapsed time
\* starts at zero and the first wait, of 500 ms, is requested.
C28_PollingStarts ==
    \A t \in TaskIds :
        (pc[t] = "prompt" /\ pc'[t] \notin {"prompt", "cleanup"}) =>
            /\ pc'[t] = "wait"
            /\ startTime'[t] = clock'[t]
            /\ log'[t] = Append(log[t], [type |-> "wait", ms |-> Ms(500)])

\* A wait is requested only while less than the timeout has passed since
\* polling started, the last read only once the timeout has passed since
\* then; the time create and prompt took is the time at which polling
\* started.
C28_MeasuredFromPolling ==
    \A t \in TaskIds :
        /\ pc[t] = "wait" => clock[t] - startTime[t] < C28_Timeout
        /\ FinalRead(t) => clock[t] - startTime[t] >= C28_Timeout
        /\ pc[t] \in {"wait", "poll", "final"} =>
              /\ Len(SelectSeq(log[t], IsWait)) >= 1
              /\ startTime[t] \in {a + b : a \in latencies, b \in latencies}

C29_SingleFinalChunk ==
    \A t \in TaskIds :
        /\ \A i \in Idx(log[t]) :
              IsArtifact(log[t][i]) =>
                  /\ log[t][i].event.lastChunk = TRUE
                  /\ Len(log[t][i].event.artifact.parts) = 1
                  /\ log[t][i].event.artifact.parts[1].kind = "text"
                  /\ log[t][i].event.artifact.name \in {"Result", "Error"}
        /\ pc[t] # "done" => Len(SelectSeq(log[t], IsArtifact)) = 0
        /\ pc[t] = "done" => Len(SelectSeq(log[t], IsArtifact)) = 1

\* A cancelled run that timed out has published its one Result artifact,
\* holding the timeout notice.
C29_Witness ==
    /\ Returned("t1") /\ cancels["t1"] = 1 /\ FinalRead("t1")
    /\ \E i \in Idx(log["t1"]) :
          /\ IsArtifact(log["t1"][i])
          /\ log["t1"][i].event.artifact.name = "Result"
          /\ log["t1"][i].event.artifact.parts = <<TextPart(timeoutNotice)>>
          /\ log["t1"][i].event.lastChunk

\* ---------------------------------------------------------------- C30
\* C30: the Task snapshot is in state submitted; every status-update is in
\* state working, completed, failed or canceled, with final = true when
\* completed, failed or canceled and final = false when working; no other
\* state is ever published.
C30_StatesAndFinal ==
    \A t \in TaskIds : \A i \in Idx(log[t]) :
        LET x == log[t][i] IN
        /\ IsTaskSnapshot(x) => x.event.status.state = "submitted"
        /\ IsStatus(x) =>
              /\ x.event.status.state \in
                    {"working", "completed", "failed", "canceled"}
              /\ x.event.final = TRUE <=>
                    x.event.status.state \in {"completed", "failed", "canceled"}
              /\ x.event.final = FALSE <=> x.event.status.state = "working"
        /\ IsPublish(x) =>
              \/ IsTaskSnapshot(x)
              \/ IsStatus(x)
              \/ IsArtifact(x)

\* A new task was cancelled while running and then failed: submitted,
\* working, canceled and failed have all been published.
C30_Witness ==
    LET states == {log["t1"][i].event.status.state :
                     i \in {j \in Idx(log["t1"]) :
                              IsStatus(log["t1"][j]) \/ IsTaskSnapshot(log["t1"][j])}}
    IN  /\ Returned("t1")
        /\ states = {"submitted", "working", "canceled", "failed"}

\* ============================================================ discovery.ts
\* ------------------------------------------------------- discoverSkills
DEFAULT_SKILLS ==
    << [id |-> Some("code-assistance"), name |-> Some("Code Assistance"),
        description |-> "Help with coding tasks, debugging, and implementation",
        tags |-> <<"code", "programming">>],
       [id |-> Some("code-review"), name |-> Some("Code Review"),
        description |-> "Review code for issues, best practices, and improvements",
        tags |-> <<"review", "quality">>],
       [id |-> Some("refactoring"), name |-> Some("Refactoring"),
        description |-> "Refactor code for better maintainability and performance",
        tags |-> <<"refactor", "cleanup">>],
       [id |-> Some("documentation"), name |-> Some("Documentation"),
        description |-> "Generate and update documentation",
        tags |-> <<"docs", "readme">>],
       [id |-> Some("testing"), name |-> Some("Testing"),
        description |-> "Write and run tests",
        tags |-> <<"test", "coverage">>] >>

\* The items that a discovery method of the session API may list: with an id,
\* with a name only, with neither.
RawItems ==
    { [id |-> Some("review"), name |-> Some("Review")],
      [id |-> Some("Review"), name |-> Null],
      [id |-> Null, name |-> Some("Re  View")],
      [id |-> Null, name |-> Some("REVIEW")],
      [id |-> Null, name |-> Null],
      [id |-> Some("test"), name |-> Some("Test")] }

MaxItems == 1
RawLists == UNION { [1..n -> RawItems] : n \in 0..MaxItems }

\* name.toLowerCase().replace(/\s+/g, "-")
RECURSIVE Slug(_, _)
Slug(s, inSpace) ==
    IF Len(s) = 0 THEN ""
    ELSE IF Char(s, 1) = " "
    THEN (IF inSpace THEN "" ELSE "-") \o Slug(SubSeq(s, 2, Len(s)), TRUE)
    ELSE ToLower(Char(s, 1)) \o Slug(SubSeq(s, 2, Len(s)), FALSE)

\* item.id || item.name?.toLowerCase().replace(/\s+/g, "-")
itemId(item) ==
    IF Truthy(item.id) THEN item.id
    ELSE IF item.name = Null THEN Null
    ELSE Some(Slug(item.name[1], FALSE))

\* The callback of data.map in getCommands, getTools and in the fallback of
\* getPluginSkills; tag is "command", "tool" or "plugin".
mapItem(item, tag) ==
    [id |-> itemId(item),
     name |-> IF Truthy(item.name) THEN item.name ELSE item.id,
     description |-> "",
     tags |-> <<tag>>]

\* The callback of result.data.skills.map in getPluginSkills.
mapPluginSkill(skill) ==
    [id |-> skill.id, name |-> skill.name, description |-> "",
     tags |-> <<"plugin">>]

\* What a discovery method of the session API does: it does not exist, it
\* rejects, it lists items. Plugin skills are listed by getPluginSkills or by
\* one of the fallback methods.
ApiAnswers ==
    { [kind |-> "none"], [kind |-> "throw"] }
    \cup { [kind |-> "list", items |-> l] : l \in sessionApi }
PluginMethods == {"getPluginSkills", "listPluginSkills"}

\* getCommands / getTools with that answer: a rejection is caught by
\* discoverSkills, which then takes the empty list.
getSkills(a, tag) ==
    IF a.kind = "list"
    THEN [i \in 1..Len(a.items) |-> mapItem(a.items[i], tag)]
    ELSE <<>>

getPluginSkills(a, method) ==
    IF a.kind = "list"
    THEN [i \in 1..Len(a.items) |->
            IF method = "getPluginSkills" THEN mapPluginSkill(a.items[i])
            ELSE mapItem(a.items[i], "plugin")]
    ELSE <<>>

\* Mutant: the ids are compared as they are written.
RECURSIVE deduplicateExact(_, _, _)
deduplicateExact(skills, seenIds, kept) ==
    IF Len(skills) = 0 THEN Resolved(kept)
    ELSE IF skills[1].id = Null
    THEN Rejected([isError |-> TRUE, name |-> "TypeError",
                   message |-> "Cannot read properties of undefined"])
    ELSE LET id == skills[1].id[1] IN
         IF id \in seenIds
         THEN deduplicateExact(Tail(skills), seenIds, kept)
         ELSE deduplicateExact(Tail(skills), seenIds \cup {id},
                               Append(kept, skills[1]))

\* The loop of deduplicateSkills: seen is a Map, which keeps its entries in
\* the order they were first set; skill.id.toLowerCase() throws on an id that
\* is undefined.
RECURSIVE deduplicateLoop(_, _, _)
deduplicateLoop(skills, seenIds, kept) ==
    IF Len(skills) = 0 THEN Resolved(kept)
    ELSE IF skills[1].id = Null
    THEN Rejected([isError |-> TRUE, name |-> "TypeError",
                   message |-> "Cannot read properties of undefined"])
    ELSE LET id == LowerAll(skills[1].id[1]) IN
         IF id \in seenIds
         THEN deduplicateLoop(Tail(skills), seenIds, kept)
         ELSE deduplicateLoop(Tail(skills), seenIds \cup {id},
                              Append(kept, skills[1]))

deduplicateSkills(skills) == deduplicateLoop(skills, {}, <<>>)

\* mapToAgentSkill / mapToAgentSkills of skill-mapper.ts
mapToAgentSkill(d) ==
    [id |-> d.id, name |-> d.name, description |-> d.description,
     inputModes |-> <<"text">>, outputModes |-> <<"text">>, tags |-> d.tags]

mapDiscoveryResultToAgentSkills(r) ==
    [i \in 1..Len(r.all) |-> mapToAgentSkill(r.all[i])]

\* startA2AServer(config, logger, client) up to its await of discoverSkills,
\* and discoverSkills up to its first await: without a client it returns the
\* default skills.
startA2AServer(k) ==
    /\ k \in starts
    /\ startPc[k] = "idle"
    /\ \E withClient \in BOOLEAN :
          IF withClient
          THEN /\ startPc' = [startPc EXCEPT ![k] = "commands"]
               /\ UNCHANGED <<discovery, discoverResult>>
          ELSE /\ discovery' = [discovery EXCEPT ![k].all = DEFAULT_SKILLS]
               /\ discoverResult' = [discoverResult EXCEPT ![k] =
                     Resolved([discovery[k] EXCEPT !.all = DEFAULT_SKILLS])]
               /\ startPc' = [startPc EXCEPT ![k] = "discovered"]
    /\ UNCHANGED <<executorVars, utilVars, agentUrl, toolVars, getterVars,
                   starts, sessionApi, agentCard,
                   httpVars>>

\* await getCommands(client, logger) settles.
getCommandsReturn(k) ==
    /\ startPc[k] = "commands"
    /\ \E a \in ApiAnswers :
          discovery' = [discovery EXCEPT ![k].commands = getSkills(a, "command")]
    /\ startPc' = [startPc EXCEPT ![k] = "tools"]
    /\ UNCHANGED <<executorVars, utilVars, agentUrl, toolVars, getterVars,
                   starts, sessionApi, discoverResult,
                   agentCard, httpVars>>

\* await getTools(client, logger) settles.
getToolsReturn(k) ==
    /\ startPc[k] = "tools"
    /\ \E a \in ApiAnswers :
          discovery' = [discovery EXCEPT ![k].tools = getSkills(a, "tool")]
    /\ startPc' = [startPc EXCEPT ![k] = "pluginSkills"]
    /\ UNCHANGED <<executorVars, utilVars, agentUrl, toolVars, getterVars,
                   starts, sessionApi, discoverResult,
                   agentCard, httpVars>>

\* await getPluginSkills(client, logger) settles, and discoverSkills runs to
\* its end: the three lists are combined and deduplicated, the defaults
\* replace an empty list.
getPluginSkillsReturn(k) ==
    /\ startPc[k] = "pluginSkills"
    /\ \E a \in ApiAnswers, method \in PluginMethods :
          LET r1 == [discovery[k] EXCEPT
                        !.pluginSkills = getPluginSkills(a, method)]
              d  == deduplicateSkills(r1.commands \o r1.tools \o r1.pluginSkills)
              r2 == [r1 EXCEPT !.all = IF d.kind = "resolved" THEN d.value
                                       ELSE <<>>]
              r3 == [r2 EXCEPT !.all = IF Len(r2.all) = 0 THEN DEFAULT_SKILLS
                                       ELSE r2.all]
          IN  IF d.kind = "rejected"
              THEN /\ discovery' = [discovery EXCEPT ![k] = r1]
                   /\ discoverResult' = [discoverResult EXCEPT ![k] = d]
              ELSE /\ discovery' = [discovery EXCEPT ![k] = r3]
                   /\ discoverResult' = [discoverResult EXCEPT ![k] = Resolved(r3)]
    /\ startPc' = [startPc EXCEPT ![k] = "discovered"]
    /\ UNCHANGED <<executorVars, utilVars, agentUrl, toolVars, getterVars,
                   starts, sessionApi, agentCard,
                   httpVars>>

\* The ports of config.port.
Ports == {4000, 4001}

\* expressApp.listen(port, ...): the server listens unless another server is
\* listening on the port; then its "error" event is emitted, whose handler
\* logs and throws. A server that close() was called on has released the port.
listen(port) ==
    [port |-> port,
     state |-> IF \E i \in 1..Len(servers) :
                     servers[i].port = port /\ servers[i].state = "listening"
               THEN "error" ELSE "listening"]

\* discoverSkills has settled and startA2AServer resumes: on a rejection it
\* rejects; otherwise it builds the Agent Card, starts the HTTP server and
\* keeps it in serverInstance.
startA2AServerResume(k) ==
    /\ startPc[k] = "discovered"
    /\ IF discoverResult[k].kind = "rejected"
       THEN /\ startPc' = [startPc EXCEPT ![k] = "rejected"]
            /\ UNCHANGED <<agentCard, serverInstance, servers>>
       ELSE \E port \in Ports :
            /\ agentCard' = [agentCard EXCEPT ![k] =
                  mapDiscoveryResultToAgentSkills(discoverResult[k].value)]
            /\ servers' = Append(servers, listen(port))
            /\ serverInstance' = Some(Len(servers) + 1)
            /\ startPc' = [startPc EXCEPT ![k] = "resolved"]
    /\ UNCHANGED <<executorVars, utilVars, agentUrl, toolVars, getterVars,
                   starts, sessionApi, discovery,
                   discoverResult, stops, stopPc, closing>>

NextDiscovery ==
    \/ \E k \in StartIds : startA2AServer(k)
    \/ \E k \in StartIds : getCommandsReturn(k)
    \/ \E k \in StartIds : getToolsReturn(k)
    \/ \E k \in StartIds : getPluginSkillsReturn(k)
    \/ \E k \in StartIds : startA2AServerResume(k)

\* One call of startA2AServer, on a backend whose discovery methods list up
\* to MaxItems items each.
InitDiscovery ==
    /\ InitExecutor
    /\ InitUtilities
    /\ client
    /\ optTimeout = 0
    /\ requests = {}
    /\ cancelAt = {}
    /\ latencies = {0}
    /\ task = [t \in TaskIds |-> TRUE]
    /\ userMessage = [t \in TaskIds |->
                        [kind |-> "message", role |-> "user",
                         parts |-> <<TextPart("Hello")>>]]
    /\ starts = {1}
    /\ stops = {}
    /\ sessionApi = RawLists
    /\ NoAgent
    /\ ReliableSink

SpecDiscovery == InitDiscovery /\ [][NextDiscovery]_vars

\* ---------------------------------------------------------------- C31
\* Two skills have the same id when case is ignored.
C31_SameId(a, b) == LowerAll(a.id[1]) = LowerAll(b.id[1])

\* The skills of s that no earlier skill of s has the id of, in the order of
\* s.
C31_FirstOccurrences(s) ==
    LET keep == {i \in 1..Len(s) : \A j \in 1..(i - 1) : ~C31_SameId(s[j], s[i])}
        at == CHOOSE f \in [1..Cardinality(keep) -> keep] :
                 \A m, n \in 1..Cardinality(keep) : m < n => f[m] < f[n]
    IN  [m \in 1..Cardinality(keep) |-> s[at[m]]]

\* C31: when discoverSkills has returned, no two skills of `all` have ids
\* that are equal ignoring case; when commands, tools and plugin skills were
\* found, `all` is made of the first occurrence of each id in the order
\* commands, tools, plugin skills, the kept skills in their relative order;
\* and the skills on the Agent Card are those of `all`, in order.
C31_UniqueIds ==
    \A k \in StartIds :
        discoverResult[k].kind = "resolved" =>
            LET r == discoverResult[k].value
                combined == r.commands \o r.tools \o r.pluginSkills
            IN  /\ \A i \in 1..Len(r.all) : r.all[i].id # Null
                /\ \A i, j \in 1..Len(r.all) :
                      i < j => ~C31_SameId(r.all[i], r.all[j])
                /\ Len(combined) > 0 => r.all = C31_FirstOccurrences(combined)
                /\ startPc[k] = "resolved" =>
                      /\ Len(agentCard[k]) = Len(r.all)
                      /\ \A i \in 1..Len(r.all) :
                            agentCard[k][i].id = r.all[i].id

\* A command, a tool and a plugin skill were found whose ids differ in case
\* only; the command alone is on the Agent Card.
C31_Witness ==
    /\ startPc[1] = "resolved"
    /\ Len(discovery[1].commands) = 1
    /\ Len(discovery[1].tools) = 1
    /\ Len(discovery[1].pluginSkills) = 1
    /\ discovery[1].commands[1].id # discovery[1].tools[1].id
    /\ discovery[1].tools[1].id # discovery[1].pluginSkills[1].id
    /\ Len(agentCard[1]) = 1
    /\ agentCard[1][1].tags = <<"command">>

\* =========================================================== a2a-tools.ts
\* const formatError of createA2ATools
formatError(message, error) ==
    "Error: " \o (IF error.isError THEN error.message ELSE message)

\* const formatMessageParts of createA2ATools; parts may be undefined.
formatMessageParts(parts) ==
    IF parts = Null \/ Len(parts[1]) = 0 THEN ""
    ELSE Join(Texts(SelectSeq(parts[1], LAMBDA q : q.kind = "text")), "\n")

\* The body of the loop over artifact.parts in formatArtifacts.
RECURSIVE formatParts(_)
formatParts(parts) ==
    IF Len(parts) = 0 THEN ""
    ELSE (IF parts[1].kind = "text" THEN "\n" \o parts[1].text \o "\n"
          ELSE IF parts[1].kind = "file"
          THEN "[File: " \o parts[1].file.mimeType \o "] "
               \o parts[1].file.uri \o "\n"
          ELSE "")
         \o formatParts(Tail(parts))

\* const formatArtifacts of createA2ATools; artifacts may be undefined.
RECURSIVE formatArtifactList(_)
formatArtifactList(artifacts) ==
    IF Len(artifacts) = 0 THEN ""
    ELSE LET a == artifacts[1] IN
         "\n## Artifact: "
         \o (IF Truthy(a.name) THEN a.name[1] ELSE a.artifactId) \o "\n"
         \o (IF Truthy(a.description)
             THEN "Description: " \o a.description[1] \o "\n" ELSE "")
         \o "ID: " \o a.artifactId \o "\n"
         \o formatParts(a.parts)
         \o formatArtifactList(Tail(artifacts))

formatArtifacts(artifacts) ==
    IF artifacts = Null \/ Len(artifacts[1]) = 0 THEN "No artifacts"
    ELSE formatArtifactList(artifacts[1])

\* The arguments of a tool call and the agent URL of the configuration.
ToolUrls == {Null, Some(""), Some("http://b.example")}
ConfigUrls == {Null, Some("http://a.example")}
ToolTaskIds == {"task-1"}

\* What getClient() settles with: a client, undefined, a rejection.
GetClientAnswers ==
    { Resolved(c) : c \in Clients } \cup { Rejected(e) : e \in Thrown }

\* What client.sendMessage settles with for a2a_send: as for
\* sendToA2AAgent, and a failing client may also answer with an error
\* response or with a response of no known kind.
ToolSendAnswers(c, params) ==
    SendAnswers(c, params)
    \cup (IF c = "failing"
          THEN { Resolved([kind |-> "error"]), Resolved([kind |-> "other"]) }
          ELSE {})

\* The tasks that client.getTask and client.cancelTask resolve with.
ToolArtifacts ==
    { Null, Some(<<>>),
      Some(<< [artifactId |-> "a-1", name |-> Some("Result"),
               description |-> Null, parts |-> <<TextPart("done")>>] >>),
      Some(<< [artifactId |-> "a-2", name |-> Null,
               description |-> Some("log"),
               parts |-> << [kind |-> "file",
                             file |-> [mimeType |-> "text/plain",
                                       uri |-> "file:///a.log"]] >>] >>) }
ToolTasks ==
    { [id |-> "task-1", contextId |-> ctx,
       status |-> [state |-> st, message |-> m], artifacts |-> arts] :
        ctx \in {Null, Some("ctx-9")}, st \in {"completed", "canceled"},
        m \in {Null, Some([parts |-> Some(<<TextPart("All done")>>)])},
        arts \in ToolArtifacts }
TaskAnswers ==
    { Resolved(t) : t \in ToolTasks } \cup { Rejected(e) : e \in Thrown }

\* The calls that a tool makes and how they settle, for toolLog.
ToolCalls(op) == [kind |-> "call", op |-> op]
ToolSettles(op, a) == [kind |-> "settle", op |-> op, answer |-> a]

\* `Task created: ...` of a2a_send.execute; status and contextId are those
\* of the response of sendMessage.
taskCreated(response) ==
    "Task created: " \o response.id \o "\nStatus: " \o response.status.state
    \o "\nContext ID: " \o response.contextId

\* The output of a2a_send.execute for the task that getTask resolved with.
taskOutput(t) ==
    "Task ID: " \o t.id \o "\n"
    \o "Status: " \o t.status.state \o "\n"
    \o "Context ID: " \o (IF Truthy(t.contextId) THEN t.contextId[1] ELSE "N/A")
    \o "\n"
    \o (IF t.status.message # Null
           /\ formatMessageParts(t.status.message[1].parts) # ""
        THEN "\n## Message\n"
             \o formatMessageParts(t.status.message[1].parts) \o "\n"
        ELSE "")
    \o formatArtifacts(t.artifacts)

\* The agent URL check that every tool with an optional agentUrl starts
\* with; then getClient is called.
toolStart(call, noUrl) ==
    /\ toolCall' = call
    /\ IF ~Truthy(call.agentUrl) /\ ~Truthy(agentUrl)
       THEN /\ toolResult' = Resolved(noUrl)
            /\ toolPc' = "settled"
            /\ UNCHANGED toolLog
       ELSE /\ toolLog' = Append(toolLog, ToolCalls("getClient"))
            /\ toolPc' = "getClient"
            /\ UNCHANGED toolResult
    /\ UNCHANGED <<executorVars, utilVars, serverVars, getterVars, agentUrl,
                   toolClient, toolResponse>>

\* a2a_send.execute(args) up to await getClient().
a2a_send ==
    /\ toolPc = "idle"
    /\ \E message \in MessageTexts, url \in ToolUrls, blocking \in BlockingArgs :
          toolStart([tool |-> "a2a_send", message |-> message,
                     agentUrl |-> url, blocking |-> blocking],
                    "Error: No agent URL configured. Set agentUrl in a2a.jsonc")

\* a2a_cancel.execute(args) up to await getClient().
a2a_cancel ==
    /\ toolPc = "idle"
    /\ \E id \in ToolTaskIds, url \in ToolUrls :
          toolStart([tool |-> "a2a_cancel", taskId |-> id, agentUrl |-> url],
                    "Error: No agent URL configured")

\* The message that the catch block of each tool passes to formatError.
catchMessage(tool) ==
    IF tool = "a2a_send" THEN "Unknown error" ELSE "Failed to cancel task"

\* Mutant: the client is used without looking at it.
getClientReturnUnchecked ==
    /\ toolPc = "getClient"
    /\ \E a \in GetClientAnswers, uuid \in Uuids :
          /\ IF a.kind = "rejected"
             THEN /\ toolResult' = Resolved(
                        formatError(catchMessage(toolCall.tool), a.error))
                  /\ toolPc' = "settled"
                  /\ toolLog' = Append(toolLog, ToolSettles("getClient", a))
                  /\ UNCHANGED toolClient
             ELSE /\ toolClient' = Some(a.value)
                  /\ toolLog' = toolLog \o
                        << ToolSettles("getClient", a),
                           ToolCalls(IF toolCall.tool = "a2a_send"
                                     THEN "sendMessage" ELSE "cancelTask") >>
                  /\ toolPc' = IF toolCall.tool = "a2a_send" THEN "send"
                               ELSE "cancel"
                  /\ UNCHANGED toolResult
    /\ UNCHANGED <<executorVars, utilVars, serverVars, getterVars, agentUrl,
                   toolCall, toolResponse>>

\* await getClient() settles: a rejection goes to the catch block, a missing
\* client ends the call, otherwise the client operation is called
\* (sendToA2AAgent calls client.sendMessage at once).
getClientReturn ==
    /\ toolPc = "getClient"
    /\ \E a \in GetClientAnswers, uuid \in Uuids :
          /\ IF a.kind = "rejected"
             THEN /\ toolResult' = Resolved(
                        formatError(catchMessage(toolCall.tool), a.error))
                  /\ toolPc' = "settled"
                  /\ toolLog' = Append(toolLog, ToolSettles("getClient", a))
                  /\ UNCHANGED toolClient
             ELSE IF a.value = "none"
             THEN /\ toolResult' = Resolved(
                        "Error: A2A client not initialized. Check configuration.")
                  /\ toolPc' = "settled"
                  /\ toolLog' = Append(toolLog, ToolSettles("getClient", a))
                  /\ UNCHANGED toolClient
             ELSE /\ toolClient' = Some(a.value)
                  /\ toolLog' = toolLog \o
                        << ToolSettles("getClient", a),
                           ToolCalls(IF toolCall.tool = "a2a_send"
                                     THEN "sendMessage" ELSE "cancelTask") >>
                  /\ toolPc' = IF toolCall.tool = "a2a_send" THEN "send"
                               ELSE "cancel"
                  /\ UNCHANGED toolResult
    /\ UNCHANGED <<executorVars, utilVars, serverVars, getterVars, agentUrl,
                   toolCall, toolResponse>>

\* await sendToA2AAgent(...) settles in a2a_send.execute.
sendToA2AAgentReturn ==
    /\ toolPc = "send"
    /\ \E a \in ToolSendAnswers(
                  toolClient[1],
                  sendParams(toolCall.message, Null,
                             Some(IF toolCall.blocking = Null THEN TRUE
                                  ELSE toolCall.blocking[1]), "uuid-1")) :
          IF a.kind = "resolved" /\ a.value.kind = "task"
             /\ toolCall.blocking = Some(TRUE)
          THEN /\ toolResponse' = Some(a.value)
               /\ toolLog' = toolLog \o << ToolSettles("sendMessage", a),
                                           ToolCalls("getTask") >>
               /\ toolPc' = "getTask"
               /\ UNCHANGED toolResult
          ELSE /\ toolResult' = Resolved(
                     IF a.kind = "rejected"
                     THEN formatError("Unknown error", a.error)
                     ELSE IF a.value.kind = "message"
                     THEN (IF formatMessageParts(Some(a.value.parts)) # ""
                           THEN formatMessageParts(Some(a.value.parts))
                           ELSE "Empty response from agent")
                     ELSE IF a.value.kind = "task"
                     THEN taskCreated(a.value)
                     ELSE IF a.value.kind = "error"
                     THEN "Error: An error occurred during communication"
                     ELSE "Unexpected response type")
               /\ toolLog' = Append(toolLog, ToolSettles("sendMessage", a))
               /\ toolPc' = "settled"
               /\ toolResponse' = IF a.kind = "resolved" THEN Some(a.value)
                                  ELSE Null
    /\ UNCHANGED <<executorVars, utilVars, serverVars, getterVars, agentUrl,
                   toolCall, toolClient>>

\* await client.getTask(...) settles in a2a_send.execute: a rejection is
\* caught by the inner catch block, which returns the basic task info.
getTaskReturn ==
    /\ toolPc = "getTask"
    /\ \E a \in TaskAnswers :
          /\ toolResult' = Resolved(IF a.kind = "resolved"
                                    THEN taskOutput(a.value)
                                    ELSE taskCreated(toolResponse[1]))
          /\ toolLog' = Append(toolLog, ToolSettles("getTask", a))
    /\ toolPc' = "settled"
    /\ UNCHANGED <<executorVars, utilVars, serverVars, getterVars, agentUrl,
                   toolCall, toolClient, toolResponse>>

\* await client.cancelTask(...) settles in a2a_cancel.execute.
cancelTaskReturn ==
    /\ toolPc = "cancel"
    /\ \E a \in TaskAnswers :
          /\ toolResult' = Resolved(
                IF a.kind = "resolved"
                THEN "Task " \o a.value.id \o " cancelled. Status: "
                     \o a.value.status.state
                ELSE formatError("Failed to cancel task", a.error))
          /\ toolLog' = Append(toolLog, ToolSettles("cancelTask", a))
    /\ toolPc' = "settled"
    /\ UNCHANGED <<executorVars, utilVars, serverVars, getterVars, agentUrl,
                   toolCall, toolClient, toolResponse>>

NextTools ==
    \/ a2a_send
    \/ a2a_cancel
    \/ getClientReturn
    \/ sendToA2AAgentReturn
    \/ getTaskReturn
    \/ cancelTaskReturn

\* One execution of a tool, with and without a configured agent URL.
InitTools ==
    /\ InitExecutor
    /\ InitUtilities
    /\ NoServer
    /\ ReliableSink
    /\ agentUrl \in ConfigUrls
    /\ client
    /\ optTimeout = 0
    /\ requests = {}
    /\ cancelAt = {}
    /\ latencies = {0}
    /\ task = [t \in TaskIds |-> TRUE]
    /\ userMessage = [t \in TaskIds |->
                        [kind |-> "message", role |-> "user",
                         parts |-> <<TextPart("Hello")>>]]

SpecTools == InitTools /\ [][NextTools]_vars

\* ---------------------------------------------------------------- C32
\* A user-visible error string.
C32_IsErrorString(s) == Len(s) >= 7 /\ SubSeq(s, 1, 7) = "Error: "

C32_Ops == {"sendMessage", "getTask", "cancelTask"}

\* How often the tool called op.
C32_Calls(op) ==
    Cardinality({i \in 1..Len(toolLog) :
                   toolLog[i].kind = "call" /\ toolLog[i].op = op})

\* The call of op failed.
C32_Failed(op) ==
    \E i \in 1..Len(toolLog) :
        /\ toolLog[i].kind = "settle"
        /\ toolLog[i].op = op
        /\ toolLog[i].answer.kind = "rejected"

\* The tool never throws; without an agent URL it returns an error string
\* and does not call getClient; without a client it returns an error string
\* and calls no client operation; no call is made twice.
C32_FailsFast ==
    /\ toolPc = "settled" => toolResult.kind = "resolved"
    /\ toolPc # "idle" /\ ~Truthy(toolCall.agentUrl) /\ ~Truthy(agentUrl) =>
          /\ toolPc = "settled"
          /\ C32_IsErrorString(toolResult.value)
          /\ toolLog = <<>>
    /\ (\E i \in 1..Len(toolLog) :
           /\ toolLog[i].kind = "settle"
           /\ toolLog[i].op = "getClient"
           /\ toolLog[i].answer.kind = "resolved"
           /\ toolLog[i].answer.value = "none") =>
          /\ toolPc = "settled"
          /\ C32_IsErrorString(toolResult.value)
          /\ \A op \in C32_Ops : C32_Calls(op) = 0
    /\ \A op \in C32_Ops \cup {"getClient"} : C32_Calls(op) <= 1

C33_Calls(t) == SelectSeq(log[t], IsCall)

\* The place of a backend call in the protocol.
C33_Rank(x) ==
    CASE x.call.op = "create" -> 1
      [] x.call.op = "prompt" -> 2
      [] x.call.op = "messages" -> 3
      [] x.call.op = "delete" -> 4

\* C33: the backend calls of one execution are create, then prompt, then
\* any number of messages queries, then delete, the last three on the
\* session that create returned: while create is pending nothing else has
\* been called, while prompt is pending no messages query has been made,
\* nothing is called after delete, and delete is the last call once the
\* bridge is over for a session that was created.
C33_ProtocolOrder ==
    \A t \in TaskIds :
        LET calls == C33_Calls(t) IN
        /\ \A i, j \in Idx(calls) :
              i < j =>
                 /\ C33_Rank(calls[i]) <= C33_Rank(calls[j])
                 /\ C33_Rank(calls[i]) = C33_Rank(calls[j]) =>
                       calls[i].call.op = "messages"
        /\ \A i \in Idx(calls) :
              OnSession(calls[i]) =>
                 /\ IsCreate(calls[1])
                 /\ sessionId[t] # 0
                 /\ calls[i].call.id = sessionId[t]
        /\ \A i \in Idx(calls) :
              IsMessages(calls[i]) => IsPrompt(calls[2])
        /\ pc[t] = "create" => Len(calls) = 1 /\ sessionId[t] = 0
        /\ pc[t] = "prompt" => Len(calls) = 2
        /\ (BridgeOver(t) /\ sessionId[t] # 0) => IsDelete(calls[Len(calls)])

\* Two polls and the final read were made between prompt and delete.
C33_Witness ==
    LET calls == C33_Calls("t1") IN
    /\ BridgeOver("t1")
    /\ Len(calls) = 6
    /\ IsCreate(calls[1]) /\ IsPrompt(calls[2])
    /\ IsMessages(calls[3]) /\ IsMessages(calls[4]) /\ IsMessages(calls[5])
    /\ IsDelete(calls[6])

\* ---------------------------------------------------------------- C34
\* A poll that reads an empty agent text goes on like a poll that reads
\* nothing: the next wait or the final read, no result yet.
C34_EmptyPollStep ==
    \A t \in TaskIds :
        (pc[t] = "poll" /\ pc'[t] # "poll"
         /\ checkForResponse(answer'[t]) = Some("")) =>
            /\ pc'[t] \in {"wait", "final"}
            /\ outcome'[t] = outcome[t]

\* A final read without agent text, or with an empty one, yields the timeout
\* notice.
C34_EmptyFinalStep ==
    \A t \in TaskIds :
        (pc[t] = "final" /\ pc'[t] # "final"
         /\ getFinalResponse(answer'[t]) \in {Null, Some("")}) =>
            outcome'[t] = Value(timeoutNotice)

\* What the bridge returns, and the text of every Result artifact, is not
\* the empty string.
C34_NonEmptyText ==
    \A t \in TaskIds :
        /\ outcome[t].kind = "value" => outcome[t].text # ""
        /\ \A i \in Idx(log[t]) :
              (IsArtifact(log[t][i])
               /\ log[t][i].event.artifact.name = "Result") =>
                  /\ Len(log[t][i].event.artifact.parts) = 1
                  /\ log[t][i].event.artifact.parts[1].text # ""

\* C34: the Session Bridge never returns an empty string: an empty poll
\* result continues the polling, an empty or missing final read is replaced
\* by the timeout notice, and so the text of every Result artifact is
\* non-empty.
C34_NeverEmpty ==
    /\ [][C34_EmptyPollStep /\ C34_EmptyFinalStep]_vars
    /\ []C34_NonEmptyText

\* The final read found an assistant message with an empty text, and the
\* timeout notice was published as the Result.
C34_Witness ==
    /\ Returned("t1")
    /\ FinalRead("t1")
    /\ getFinalResponse(answer["t1"]) = Some("")
    /\ \E i \in Idx(log["t1"]) :
          /\ IsArtifact(log["t1"][i])
          /\ log["t1"][i].event.artifact.name = "Result"
          /\ log["t1"][i].event.artifact.parts = <<TextPart(timeoutNotice)>>

\* ---------------------------------------------------------------- C35
\* The waits and the messages queries of execution t.
C35_Waits(t) == SelectSeq(log[t], IsWait)
C35_Queries(t) == SelectSeq(log[t], IsMessages)

RECURSIVE C35_Sum(_)
C35_Sum(w) == IF Len(w) = 0 THEN 0 ELSE w[1].ms + C35_Sum(Tail(w))

\* A wait is started only before the deadline; the poll after a wait is
\* made whatever the time is, and an agent text that it reads is the result,
\* also past the deadline.
C35_DeadlineStep ==
    \A t \in TaskIds :
        /\ (pc'[t] = "wait" /\ pc[t] # "wait") =>
              clock'[t] - startTime'[t] < timeout
        /\ (pc[t] = "wait" /\ pc'[t] # "wait") =>
              /\ pc'[t] = "poll"
              /\ Len(C35_Queries(t)) + 1 = Len(SelectSeq(log'[t], IsMessages))
        /\ (pc[t] = "poll" /\ pc'[t] # "poll"
            /\ Truthy(checkForResponse(answer'[t]))) =>
              /\ pc'[t] = "cleanup"
              /\ outcome'[t] = Value(checkForResponse(answer'[t])[1])

\* Each wait is followed by one poll, and the loop left by the deadline is
\* followed by one final read.
C35_OneFinalRead ==
    \A t \in TaskIds :
        LET w == Len(C35_Waits(t))
            q == Len(C35_Queries(t))
        IN  /\ pc[t] = "wait" => q = w - 1
            /\ pc[t] = "poll" => q = w
            /\ pc[t] = "final" =>
                  /\ q = w + 1
                  /\ clock[t] - startTime[t] >= timeout
            /\ pc[t] \in {"cleanup", "resolved", "done"} => q \in {w, w + 1}

\* The bridge of t returned the timeout notice of a 1000 ms timeout.
C35_TimedOut(t) ==
    /\ timeout = Ms(1000)
    /\ pc[t] \in {"cleanup", "resolved", "done"}
    /\ FinalRead(t)
    /\ outcome[t] = Value(timeoutNotice)

\* With a 1000 ms timeout and no agent text, three messages queries are
\* made, after waits of 500 ms and 750 ms and as the final read.
C35_ThreeQueries(t) ==
    /\ Len(C35_Queries(t)) = 3
    /\ Len(C35_Waits(t)) = 2
    /\ C35_Waits(t)[1].ms = Ms(500)
    /\ C35_Waits(t)[2].ms = Ms(750)

\* C35 as stated: the deadline is checked at the top of each iteration only,
\* one final read follows the loop, and whenever a 1000 ms timeout ends
\* without agent text three messages queries were made.
C35_DeadlineAtLoopTop ==
    /\ [][C35_DeadlineStep]_vars
    /\ []C35_OneFinalRead
    /\ [](\A t \in TaskIds : C35_TimedOut(t) => C35_ThreeQueries(t))

\* C35, amended: the same, the three queries being made when the backend
\* answers each query at once, so that the time spent polling is the sum of
\* the waits.
C35_DeadlineAtLoopTopPrompt ==
    /\ [][C35_DeadlineStep]_vars
    /\ []C35_OneFinalRead
    /\ [](\A t \in TaskIds :
            (C35_TimedOut(t)
             /\ clock[t] - startTime[t] = C35_Sum(C35_Waits(t))) =>
                C35_ThreeQueries(t))

\* A 1000 ms timeout ran out on a backend that answered at once and never
\* with agent text: the second poll was made 1250 ms after the start.
C35_Witness ==
    /\ C35_TimedOut("t1")
    /\ Returned("t1")
    /\ clock["t1"] - startTime["t1"] = Ms(1250)
    /\ C35_ThreeQueries("t1")

\* ---------------------------------------------------------------- C36
\* C36: every event published for a task, by execute and by cancelTask,
\* carries the contextId of the request of that task, so that all events of
\* one task name one context.
C36_OneContext ==
    \A t \in TaskIds : \A i \in Idx(log[t]) :
        IsPublish(log[t][i]) => log[t][i].event.contextId = ContextOf(t)

\* ====================================================== a throwing sink
\* The publish calls of one run of the try/catch of execute, by number: two
\* of publishSuccess, two of publishError.
PublishCalls == 1..4

\* The error that eventBus.publish throws.
SinkError == MkError("event bus closed")

\* eventBus.publish is called for each of the events in turn; the calls are
\* numbered from k, those numbered in faults throw, and a call that throws
\* has handed its event on or not (delivered). The events published, the
\* number of the next call, and whether a call threw.
RECURSIVE publishEach(_, _, _, _, _)
publishEach(bus, events, k, faults, delivered) ==
    IF Len(events) = 0 THEN [bus |-> bus, k |-> k, threw |-> FALSE]
    ELSE IF k \in faults
    THEN [bus |-> IF delivered THEN Append(bus, events[1]) ELSE bus,
          k |-> k + 1, threw |-> TRUE]
    ELSE publishEach(Append(bus, events[1]), Tail(events), k + 1, faults,
                     delivered)

\* try { response = await processWithOpenCode(..); publishSuccess(..) }
\* catch (error) { publishError(..) } on a sink whose publish throws: an
\* error thrown inside publishSuccess is caught and handed to publishError;
\* an error thrown inside publishError leaves execute.
executeTryCatchSink(bus, taskId, contextId, out, faults, delivered) ==
    LET try == IF out.kind = "value"
               THEN publishEach(bus, publishSuccess(<<>>, taskId, contextId,
                                                    out.text),
                                1, faults, delivered)
               ELSE [bus |-> bus, k |-> 1, threw |-> TRUE]
        error == IF out.kind = "value" THEN SinkError ELSE out.error
    IN  IF ~try.threw THEN [bus |-> try.bus, settled |-> "returned"]
        ELSE LET c == publishEach(try.bus,
                                  publishError(<<>>, taskId, contextId, error),
                                  try.k, faults, delivered)
             IN  [bus |-> c.bus,
                  settled |-> IF c.threw THEN "threw" ELSE "returned"]

\* The promise of processWithOpenCode has settled and execute resumes, on a
\* sink of which some publish call throws.
executeResumeThrowing(t) ==
    /\ pc[t] = "resolved"
    /\ sinkThrows
    /\ \E faults \in (SUBSET PublishCalls) \ {{}}, delivered \in BOOLEAN :
          LET r == executeTryCatchSink(log[t], t, ContextOf(t), outcome[t],
                                       faults, delivered)
          IN  /\ log' = [log EXCEPT ![t] = r.bus]
              /\ result' = [result EXCEPT ![t] = r.settled]
    /\ pc' = [pc EXCEPT ![t] = "done"]
    /\ UNCHANGED <<config, sessionId, startTime, pollInterval, clock, outcome,
                   cancels, nextSid, answer, deleted, pollWarnings>>

NextSink ==
    \/ Next
    \/ \E t \in TaskIds : executeResumeThrowing(t)

\* One task request on an executor with a 400 ms timeout, a backend that
\* answers at once and an event sink whose publish may throw once the bridge
\* has settled.
InitSink ==
    /\ InitExecutor
    /\ InitUtilities
    /\ NoServer
    /\ NoAgent
    /\ sinkThrows = TRUE
    /\ optTimeout = Ms(400)
    /\ requests = {"t1"}
    /\ cancelAt = {"done"}
    /\ latencies = {0}
    /\ task = [t \in TaskIds |-> t = "t2"]
    /\ userMessage = [t \in TaskIds |->
                        [kind |-> "message", role |-> "user",
                         parts |-> <<TextPart("Hello")>>]]

SpecSink == InitSink /\ [][NextSink]_vars

\* ---------------------------------------------------------------- C37
\* C37: one run of execute never publishes a Result artifact and an Error
\* artifact, and never a failed status after a Result artifact, also when
\* publish throws while the success events are published.
C37_ResultOrError ==
    \A t \in TaskIds :
        \A i \in Idx(log[t]) :
            (IsArtifact(log[t][i])
             /\ log[t][i].event.artifact.name = "Result") =>
                /\ \A j \in Idx(log[t]) :
                      IsArtifact(log[t][j]) =>
                          log[t][j].event.artifact.name # "Error"
                /\ \A j \in Idx(log[t]) :
                      (j > i /\ IsStatus(log[t][j])) =>
                          log[t][j].event.status.state # "failed"

\* =============================================================== index.ts
\* ---------------------------------------------------------- clientGetter
\* clientGetter() up to its await: with no cached client and an agent URL
\* the factory is called; otherwise clientState.client is returned.
clientGetter(g) ==
    /\ getterPc[g] = "idle"
    /\ IF clientState = Null /\ Truthy(agentUrl)
       THEN /\ factoryCalls' = factoryCalls + 1
            /\ getterPc' = [getterPc EXCEPT ![g] = "create"]
            /\ UNCHANGED getterResult
       ELSE /\ getterResult' = [getterResult EXCEPT ![g] = Resolved(clientState)]
            /\ getterPc' = [getterPc EXCEPT ![g] = "settled"]
            /\ UNCHANGED factoryCalls
    /\ UNCHANGED <<executorVars, utilVars, serverVars, toolVars, agentUrl,
                   clientState>>

\* await clientState.factory.createFromUrl(config.agentUrl) settles: the new
\* client (named after the call that asked for it) is stored and returned,
\* or the rejection leaves clientGetter.
createFromUrlReturn(g) ==
    /\ getterPc[g] = "create"
    /\ \/ /\ clientState' = Some(g)
          /\ getterResult' = [getterResult EXCEPT ![g] = Resolved(Some(g))]
       \/ /\ \E e \in Thrown :
                getterResult' = [getterResult EXCEPT ![g] = Rejected(e)]
          /\ UNCHANGED clientState
    /\ getterPc' = [getterPc EXCEPT ![g] = "settled"]
    /\ UNCHANGED <<executorVars, utilVars, serverVars, toolVars, agentUrl,
                   factoryCalls>>

NextGetter ==
    \/ \E g \in GetterIds : clientGetter(g)
    \/ \E g \in GetterIds : createFromUrlReturn(g)

\* The plugin and its tools call clientGetter MaxGetters times, with and
\* without an agent URL in the configuration.
InitGetter ==
    /\ InitExecutor
    /\ InitUtilities
    /\ NoServer
    /\ ReliableSink
    /\ agentUrl \in ConfigUrls \cup {Some("")}
    /\ client
    /\ optTimeout = 0
    /\ requests = {}
    /\ cancelAt = {}
    /\ latencies = {0}
    /\ task = [t \in TaskIds |-> TRUE]
    /\ userMessage = [t \in TaskIds |->
                        [kind |-> "message", role |-> "user",
                         parts |-> <<TextPart("Hello")>>]]

SpecGetter == InitGetter /\ [][NextGetter]_vars

\* ---------------------------------------------------------------- C38
\* C38: over any calls of the client getter, overlapping ones included,
\* factory.createFromUrl is invoked at most once and every call that gets a
\* client gets the same one; without an agent URL the factory is never
\* invoked and undefined is returned.
C38_CreatedOnce ==
    /\ factoryCalls <= 1
    /\ \A g, h \in GetterIds :
          (getterResult[g].kind = "resolved" /\ getterResult[g].value # Null
           /\ getterResult[h].kind = "resolved" /\ getterResult[h].value # Null)
              => getterResult[g].value = getterResult[h].value
    /\ ~Truthy(agentUrl) =>
          /\ factoryCalls = 0
          /\ \A g \in GetterIds :
                getterPc[g] = "settled" => getterResult[g] = Resolved(Null)


\* ---------------------------------------------------------------------------
\* server.ts: stopA2AServer
\* ---------------------------------------------------------------------------

\* stopA2AServer(): with a tracked server it calls serverInstance.close(cb)
\* and stays pending until cb runs; without one it resolves at once.
\* close() stops a listening server from accepting connections; on a server
\* that is not listening it only reports an error to cb.
stopA2AServer(j) ==
    /\ j \in stops
    /\ stopPc[j] = "idle"
    /\ IF serverInstance # Null
       THEN LET i == serverInstance[1]
            IN  /\ closing' = [closing EXCEPT ![j] = i]
                /\ servers' = [servers EXCEPT ![i].state =
                                  IF @ = "listening" THEN "closing" ELSE @]
                /\ stopPc' = [stopPc EXCEPT ![j] = "close"]
       ELSE /\ stopPc' = [stopPc EXCEPT ![j] = "resolved"]
            /\ UNCHANGED <<closing, servers>>
    /\ UNCHANGED <<executorVars, utilVars, agentUrl, toolVars, getterVars,
                   starts, sessionApi, startPc, discovery, discoverResult,
                   agentCard, serverInstance, stops>>

\* The callback given to close() runs: serverInstance = null; resolve().
closeCallback(j) ==
    /\ stopPc[j] = "close"
    /\ servers' = [servers EXCEPT ![closing[j]].state =
                      IF @ = "closing" THEN "closed" ELSE @]
    /\ serverInstance' = Null
    /\ stopPc' = [stopPc EXCEPT ![j] = "resolved"]
    /\ UNCHANGED <<executorVars, utilVars, agentUrl, toolVars, getterVars,
                   starts, sessionApi, startPc, discovery, discoverResult,
                   agentCard, stops, closing>>

NextServer ==
    \/ NextDiscovery
    \/ \E j \in StopIds : stopA2AServer(j)
    \/ \E j \in StopIds : closeCallback(j)

\* The host calls startA2AServer up to MaxStarts times and stopA2AServer up
\* to MaxStops times, in any order; the discovery methods list no items.
InitServer ==
    /\ InitExecutor
    /\ InitUtilities
    /\ client
    /\ optTimeout = 0
    /\ requests = {}
    /\ cancelAt = {}
    /\ latencies = {0}
    /\ task = [t \in TaskIds |-> TRUE]
    /\ userMessage = [t \in TaskIds |->
                        [kind |-> "message", role |-> "user",
                         parts |-> <<TextPart("Hello")>>]]
    /\ starts = StartIds
    /\ stops = StopIds
    /\ sessionApi = {<<>>}
    /\ NoAgent
    /\ ReliableSink

SpecServer == InitServer /\ [][NextServer]_vars

\* No call of startA2AServer or stopA2AServer is in progress.
C39_Quiet ==
    /\ \A k \in StartIds : startPc[k] \in {"idle", "resolved", "rejected"}
    /\ \A j \in StopIds : stopPc[j] \in {"idle", "resolved"}

\* C39: when stopA2AServer resolves and no other call is in progress, no
\* HTTP server that was started is still listening and serverInstance is
\* null; a stopA2AServer that finds no tracked server changes nothing.
C39_StopClosesAll ==
    [][\A j \in StopIds :
          (stopPc[j] # "resolved" /\ stopPc'[j] = "resolved" /\ C39_Quiet')
             => /\ serverInstance' = Null
                /\ \A i \in 1..Len(servers') : servers'[i].state # "listening"
                /\ stopPc[j] = "idle" => servers' = servers]_vars

====
